---- MODULE Spec2Model ----
(***************************************************************************)
(* Workflow graph execution engine of strands-agents-visual-builder:       *)
(* the session registry and handlers of app.py, the worker process of      *)
(* workflow_runner.py (_processing_thread) and the graph materialisation   *)
(* (create_nodes, create_agent, _create_tool_instance_from_data,           *)
(* _create_orchestrator, _generate_workflow_prompt).                       *)
(*                                                                         *)
(* A text (str) is a sequence of atoms; an atom is a string of the model   *)
(* that no operation of the program splits.  Display names are written     *)
(* one character per atom, because re.sub rewrites them per character.     *)
(***************************************************************************)
EXTENDS Integers, Sequences, FiniteSets, TLC

\* ------------------------------------------------------------------ bounds
MaxSessions == 2
MaxSends == 2
MaxRetrieves == 1
MaxResets == 2
MaxDeletes == 1
MaxEdits == 1
MaxFrags == 1
MaxRequests == 3
MaxConfigLen == 3
\* gunicorn --workers 2 (main.py): the web processes that share the registry
NumWebWorkers == 2

\* --------------------------------------------------------------- sequences
Range(s) == {s[i] : i \in 1..Len(s)}

RECURSIVE Flatten(_)
Flatten(ss) == IF ss = <<>> THEN <<>> ELSE Head(ss) \o Flatten(Tail(ss))

RECURSIVE FilterSeq(_, _)
\* the elements of s that are in the set keep, in order
FilterSeq(s, keep) ==
  IF s = <<>> THEN <<>>
  ELSE IF Head(s) \in keep THEN <<Head(s)>> \o FilterSeq(Tail(s), keep)
       ELSE FilterSeq(Tail(s), keep)

CountOf(s, x) == Cardinality({i \in 1..Len(s) : s[i] = x})

\* ------------------------------------------------------- protocol sentinels
STARTED == <<"_Q_E_E_STARTED">>
ANSWERED == <<"_Q_E_E_ANSWERED">>
TERMINATE == <<"_Q_E_E_TERMINATE">>
RETRIEVE == <<"_Q_E_E_RETRIEVE">>
HISTORY_PREFIX == "_Q_E_E_HISTORY"

\* str.startswith for a one-atom prefix
StartsWith(text, atom) == Len(text) > 0 /\ text[1] = atom

Whitespace == {" ", "\t", "\n"}

RECURSIVE LStrip(_)
LStrip(text) ==
  IF text # <<>> /\ Head(text) \in Whitespace THEN LStrip(Tail(text)) ELSE text

RECURSIVE RStrip(_)
RStrip(text) ==
  IF text # <<>> /\ text[Len(text)] \in Whitespace
  THEN RStrip(SubSeq(text, 1, Len(text) - 1)) ELSE text

\* str.strip()
Strip(text) == RStrip(LStrip(text))

\* the k-th delta the orchestrator streams in a turn
DeltaAtom(k) ==
  CASE k = 1 -> "delta1" [] k = 2 -> "delta2" [] k = 3 -> "delta3" [] OTHER -> "deltaN"

\* top_level_callback_handler: "data: " + json.dumps(event) + "\nend"
DataFragment(k) == <<"data: ", "{\"delta\": ", DeltaAtom(k), "}", "\nend">>

\* str(answer) of the orchestrator's result for a message
AnswerText(message) == <<"answer:">> \o message

\* ------------------------------------------------------------- json (history)
\* json.dumps of a str: quotes around it, a quote inside it escaped
JsonEscape(text) == [i \in 1..Len(text) |-> IF text[i] = "\"" THEN "\\\"" ELSE text[i]]

JsonUnescape(text) == [i \in 1..Len(text) |-> IF text[i] = "\\\"" THEN "\"" ELSE text[i]]

JsonString(text) == <<"\"">> \o JsonEscape(text) \o <<"\"">>

\* one history entry {role, content}; the timestamp is wall-clock time and is
\* not part of the model
JsonEntry(e) ==
  <<"{", "\"role\"", ":">> \o JsonString(<<e.role>>) \o <<",", "\"content\"", ":">>
    \o JsonString(e.content) \o <<"}">>

RECURSIVE JsonEntries(_)
JsonEntries(h) ==
  IF h = <<>> THEN <<>>
  ELSE IF Len(h) = 1 THEN JsonEntry(h[1])
       ELSE JsonEntry(h[1]) \o <<",">> \o JsonEntries(Tail(h))

\* json.dumps(history, default=str)
JsonDumpsHistory(h) == <<"[">> \o JsonEntries(h) \o <<"]">>

\* index of the first atom equal to a at or after position i, 0 when none
RECURSIVE IndexFrom(_, _, _)
IndexFrom(text, a, i) ==
  IF i > Len(text) THEN 0 ELSE IF text[i] = a THEN i ELSE IndexFrom(text, a, i + 1)

\* json.loads of a dumped history: entries read back from position i
RECURSIVE JsonReadEntries(_, _)
JsonReadEntries(text, i) ==
  IF i > Len(text) \/ text[i] = "]" THEN <<>>
  ELSE IF text[i] = "," THEN JsonReadEntries(text, i + 1)
  ELSE \* text[i] = "{", "\"role\"", ":", quote, role, quote, ",", "\"content\"", ":", quote ...
    LET role == text[i + 4]
        open == i + 9
        close == IndexFrom(text, "\"", open + 1)
        content == JsonUnescape(SubSeq(text, open + 1, close - 1))
    IN <<[role |-> role, content |-> content]>> \o JsonReadEntries(text, close + 2)

JsonLoadsHistory(text) == JsonReadEntries(text, 2)

\* ------------------------------------------------------- json (tool config)
\* A tool's config is text over single characters and over words that no
\* operation splits; no text of the model holds a backslash or a control
\* character, so scanstring's escapes are not modelled.
DigitAtoms == {"0", "1", "2", "3", "4", "5", "6", "7", "8", "9"}

\* the atoms that [a-zA-Z0-9_]+ matches
WordAtoms ==
  DigitAtoms \cup {"a", "b", "x", "true", "false", "command", "args", "env",
                   "disabled_tools", "mcpServers", "npx", "uvx", "fetch", "search"}

\* the atoms that [a-zA-Z0-9_./\\-]+ matches
ValueAtoms == WordAtoms \cup {".", "/", "-"}

\* Python values: dict (insertion-ordered items), list, str, int, bool, None
PyValue(t, s, n, items) == [t |-> t, s |-> s, n |-> n, items |-> items]
PyNone == PyValue("None", <<>>, 0, <<>>)
PyStr(s) == PyValue("str", s, 0, <<>>)
PyInt(n) == PyValue("int", <<>>, n, <<>>)
PyBool(b) == PyValue("bool", <<>>, IF b THEN 1 ELSE 0, <<>>)
PyList(elems) == PyValue("list", <<>>, 0, [i \in 1..Len(elems) |-> [k |-> <<>>, v |-> elems[i]]])
PyDict(items) == PyValue("dict", <<>>, 0, items)
EmptyDict == PyDict(<<>>)

\* isinstance(v, dict)
IsDict(v) == v.t = "dict"

\* bool(v)
PyTruthy(v) ==
  CASE v.t = "None" -> FALSE
    [] v.t = "str" -> v.s # <<>>
    [] v.t \in {"int", "bool"} -> v.n # 0
    [] OTHER -> v.items # <<>>

ListElems(v) == [i \in 1..Len(v.items) |-> v.items[i].v]

\* key in d
DictHas(items, key) == \E i \in 1..Len(items) : items[i].k = key

\* d[key]
DictGet(items, key) == items[CHOOSE i \in 1..Len(items) : items[i].k = key].v

\* d.get(key, default)
DictGetDefault(items, key, default) ==
  IF DictHas(items, key) THEN DictGet(items, key) ELSE default

\* d[key] = value: a key that is present keeps its place
DictSet(items, key, value) ==
  IF DictHas(items, key)
  THEN [i \in 1..Len(items) |-> IF items[i].k = key THEN [k |-> key, v |-> value] ELSE items[i]]
  ELSE Append(items, [k |-> key, v |-> value])

\* the atom at position i, "" past the end
At(text, i) == IF i >= 1 /\ i <= Len(text) THEN text[i] ELSE ""

RECURSIVE SkipSpace(_, _)
\* the end of [ \t\n\r]* (and of \s*) matched at position i
SkipSpace(text, i) ==
  IF At(text, i) \in Whitespace THEN SkipSpace(text, i + 1) ELSE i

RECURSIVE RunEnd(_, _, _)
\* the position after the longest run of atoms of class at position i
RunEnd(text, i, class) ==
  IF At(text, i) \in class THEN RunEnd(text, i + 1, class) ELSE i

DigitOf(a) ==
  CASE a = "0" -> 0 [] a = "1" -> 1 [] a = "2" -> 2 [] a = "3" -> 3 [] a = "4" -> 4
    [] a = "5" -> 5 [] a = "6" -> 6 [] a = "7" -> 7 [] a = "8" -> 8 [] OTHER -> 9

RECURSIVE IntOf(_)
\* int(digits)
IntOf(digits) ==
  IF digits = <<>> THEN 0
  ELSE 10 * IntOf(SubSeq(digits, 1, Len(digits) - 1)) + DigitOf(digits[Len(digits)])

\* the outcome of a scan: whether it matched, the value, the position after it
Scanned(v, end) == [ok |-> TRUE, v |-> v, end |-> end]
ScanFailed == [ok |-> FALSE, v |-> PyNone, end |-> 0]

\* the control characters among the atoms
ControlAtoms == {"\t", "\n"}

RECURSIVE StringTerminator(_, _)
\* STRINGCHUNK: the position of the first quote or control character at or after
\* position i, 0 when none
StringTerminator(text, i) ==
  IF i > Len(text) THEN 0
  ELSE IF text[i] \in {"\""} \cup ControlAtoms THEN i
  ELSE StringTerminator(text, i + 1)

\* scanstring (strict), from the position after the opening quote
scanstring(text, i) ==
  LET close == StringTerminator(text, i)
  IN IF close = 0 \/ text[close] # "\"" THEN ScanFailed
     ELSE Scanned(PyStr(SubSeq(text, i, close - 1)), close + 1)

\* NUMBER_RE at position i: -?(0|[1-9]\d*), no fraction or exponent in the texts
ScanNumber(text, i) ==
  LET end == IF At(text, i) = "0" THEN i + 1 ELSE RunEnd(text, i, DigitAtoms)
  IN Scanned(PyInt(IntOf(SubSeq(text, i, end - 1))), end)

RECURSIVE scan_once(_, _)
RECURSIVE JSONObjectPairs(_, _, _)
RECURSIVE JSONArrayValues(_, _, _)

\* JSONObject's loop, from the opening quote of a key
JSONObjectPairs(text, i, pairs) ==
  LET key == scanstring(text, i + 1)
      colon == SkipSpace(text, key.end)
      value == scan_once(text, SkipSpace(text, colon + 1))
      after == SkipSpace(text, value.end)
      next == SkipSpace(text, after + 1)
  IN IF ~key.ok \/ At(text, colon) # ":" THEN ScanFailed
     ELSE IF ~value.ok THEN ScanFailed
     ELSE IF At(text, after) = "}"
          THEN Scanned(PyDict(DictSet(pairs, key.v.s, value.v)), after + 1)
     ELSE IF At(text, after) # "," \/ At(text, next) # "\"" THEN ScanFailed
     ELSE JSONObjectPairs(text, next, DictSet(pairs, key.v.s, value.v))

\* JSONObject, from the position after the brace
JSONObject(text, i) ==
  LET first == SkipSpace(text, i)
  IN IF At(text, first) = "}" THEN Scanned(EmptyDict, first + 1)
     ELSE IF At(text, first) # "\"" THEN ScanFailed
     ELSE JSONObjectPairs(text, first, <<>>)

\* JSONArray's loop, from the position of a value
JSONArrayValues(text, i, values) ==
  LET value == scan_once(text, i)
      after == SkipSpace(text, value.end)
  IN IF ~value.ok THEN ScanFailed
     ELSE IF At(text, after) = "]" THEN Scanned(PyList(Append(values, value.v)), after + 1)
     ELSE IF At(text, after) # "," THEN ScanFailed
     ELSE JSONArrayValues(text, SkipSpace(text, after + 1), Append(values, value.v))

\* JSONArray, from the position after the bracket
JSONArray(text, i) ==
  LET first == SkipSpace(text, i)
  IN IF At(text, first) = "]" THEN Scanned(PyList(<<>>), first + 1)
     ELSE JSONArrayValues(text, first, <<>>)

\* scanner.py_make_scanner._scan_once
scan_once(text, i) ==
  LET nextchar == At(text, i)
  IN CASE nextchar = "\"" ->
            scanstring(text, i + 1)
       [] nextchar = "{" -> JSONObject(text, i + 1)
       [] nextchar = "[" -> JSONArray(text, i + 1)
       [] nextchar = "true" -> Scanned(PyBool(TRUE), i + 1)
       [] nextchar = "false" -> Scanned(PyBool(FALSE), i + 1)
       [] nextchar \in DigitAtoms -> ScanNumber(text, i)
       [] OTHER -> ScanFailed

\* json.loads: ok is false where it raises JSONDecodeError
json_loads(text) ==
  LET obj == scan_once(text, SkipSpace(text, 1))
  IN IF obj.ok /\ SkipSpace(text, obj.end) = Len(text) + 1 THEN obj ELSE ScanFailed

RECURSIVE SubTrailingComma(_, _, _)
\* re.sub(r',\s*}', '}', text) and re.sub(r',\s*]', ']', text), from position i
SubTrailingComma(text, closer, i) ==
  IF i > Len(text) THEN <<>>
  ELSE IF text[i] = "," /\ At(text, SkipSpace(text, i + 1)) = closer
       THEN <<closer>> \o SubTrailingComma(text, closer, SkipSpace(text, i + 1) + 1)
       ELSE <<text[i]>> \o SubTrailingComma(text, closer, i + 1)

RECURSIVE SubQuoteKeys(_, _)
\* re.sub(r'(\{|\,)\s*([a-zA-Z0-9_]+)\s*:', r'\1"\2":', text), from position i
SubQuoteKeys(text, i) ==
  IF i > Len(text) THEN <<>>
  ELSE LET start == SkipSpace(text, i + 1)
           end == RunEnd(text, start, WordAtoms)
           colon == SkipSpace(text, end)
       IN IF text[i] \in {"{", ","} /\ end > start /\ At(text, colon) = ":"
          THEN <<text[i], "\"">> \o SubSeq(text, start, end - 1) \o <<"\"", ":">>
                 \o SubQuoteKeys(text, colon + 1)
          ELSE <<text[i]>> \o SubQuoteKeys(text, i + 1)

\* strategy 1 of _recover_json: the repaired text
FixedJson(malformed_json) ==
  LET stripped == Strip(malformed_json)
      no_comma == SubTrailingComma(SubTrailingComma(stripped, "}", 1), "]", 1)
      quoted == SubQuoteKeys(no_comma, 1)
  IN IF At(quoted, 1) # "{" /\ At(quoted, 1) # "[" THEN <<"{">> \o quoted \o <<"}">>
     ELSE quoted

\* "([^"]+)"\s*: matched at position i: the key and the position after the colon's
\* trailing \s*
QuotedKeyAt(text, i) ==
  LET close == IndexFrom(text, "\"", i + 1)
      colon == SkipSpace(text, close + 1)
  IN IF At(text, i) = "\"" /\ close > i + 1 /\ At(text, colon) = ":"
     THEN Scanned(PyStr(SubSeq(text, i + 1, close - 1)), SkipSpace(text, colon + 1))
     ELSE ScanFailed

\* the value part of a strategy 2 pattern matched at position i
QuotedValueAt(text, i, kind) ==
  CASE kind = "string" ->
         LET close == IndexFrom(text, "\"", i + 1)
         IN IF At(text, i) = "\"" /\ close # 0
            THEN Scanned(PyStr(SubSeq(text, i + 1, close - 1)), close + 1)
            ELSE ScanFailed
    [] kind = "num" ->
         LET end == RunEnd(text, i, DigitAtoms)
         IN IF end > i THEN Scanned(PyInt(IntOf(SubSeq(text, i, end - 1))), end)
            ELSE ScanFailed
    [] OTHER ->
         IF At(text, i) \in {"true", "false"} THEN Scanned(PyBool(At(text, i) = "true"), i + 1)
         ELSE ScanFailed

RECURSIVE QuotedPairs(_, _, _, _)
\* for match in re.finditer(pattern, text): result[key] = value, from position i
QuotedPairs(text, kind, i, result) ==
  IF i > Len(text) THEN result
  ELSE LET key == QuotedKeyAt(text, i)
           value == QuotedValueAt(text, key.end, kind)
       IN IF key.ok /\ value.ok
          THEN QuotedPairs(text, kind, value.end, DictSet(result, key.v.s, value.v))
          ELSE QuotedPairs(text, kind, i + 1, result)

\* strategy 2 of _recover_json: string, numeric, then boolean pairs
ExtractQuoted(malformed_json) ==
  QuotedPairs(malformed_json, "bool", 1,
    QuotedPairs(malformed_json, "num", 1,
      QuotedPairs(malformed_json, "string", 1, <<>>)))

\* the conversion of a strategy 3 value
LooseValue(value) ==
  IF value = <<"true">> THEN PyBool(TRUE)
  ELSE IF value = <<"false">> THEN PyBool(FALSE)
  ELSE IF Range(value) \subseteq DigitAtoms THEN PyInt(IntOf(value))
  ELSE PyStr(value)

RECURSIVE LoosePairs(_, _, _)
\* re.finditer(r'([a-zA-Z0-9_]+)[=:]\s*([a-zA-Z0-9_./\\-]+)', text), from position i
LoosePairs(text, i, result) ==
  IF i > Len(text) THEN result
  ELSE LET key_end == RunEnd(text, i, WordAtoms)
           start == SkipSpace(text, key_end + 1)
           end == RunEnd(text, start, ValueAtoms)
       IN IF key_end > i /\ At(text, key_end) \in {"=", ":"} /\ end > start
          THEN LoosePairs(text, end,
                          DictSet(result, SubSeq(text, i, key_end - 1),
                                  LooseValue(SubSeq(text, start, end - 1))))
          ELSE LoosePairs(text, i + 1, result)

\* strategy 3 of _recover_json
ExtractLoose(malformed_json) == LoosePairs(malformed_json, 1, <<>>)

\* _recover_json: the strategies it attempts, in order
RecoverStrategies(malformed_json) ==
  IF malformed_json = <<>> THEN <<>>
  ELSE IF json_loads(FixedJson(malformed_json)).ok THEN <<"repair">>
  ELSE IF ExtractQuoted(malformed_json) # <<>> THEN <<"repair", "quoted">>
  ELSE <<"repair", "quoted", "loose">>

\* _recover_json
recover_json(malformed_json) ==
  IF malformed_json = <<>> THEN EmptyDict
  ELSE LET fixed == json_loads(FixedJson(malformed_json))
           result == ExtractQuoted(malformed_json)
       IN IF fixed.ok THEN fixed.v
          ELSE IF result # <<>> THEN PyDict(result)
          ELSE PyDict(ExtractLoose(malformed_json))

parse_config_recovering_first(config_str) ==
  IF config_str = <<>> THEN EmptyDict ELSE recover_json(config_str)

\* parse_config
parse_config(config_str) ==
  IF config_str = <<>> THEN EmptyDict
  ELSE LET result == json_loads(config_str)
       IN IF result.ok THEN result.v ELSE recover_json(config_str)

\* what parse_config attempts on a config string, in order
ParseAttempts(config_str) ==
  IF config_str = <<>> THEN <<>>
  ELSE IF json_loads(config_str).ok THEN <<"strict">>
  ELSE <<"strict">> \o RecoverStrategies(config_str)

\* the tuple locate_config returns
Located(command, args, env, disabled_tools) ==
  [command |-> command, args |-> args, env |-> env, disabled_tools |-> disabled_tools]

NotLocated == Located(PyNone, PyNone, PyNone, PyNone)

RECURSIVE locate_config(_)
RECURSIVE LocateNested(_, _)

\* the loop of locate_config over config_dict.items(), from item i
LocateNested(items, i) ==
  IF i > Len(items) THEN NotLocated
  ELSE IF IsDict(items[i].v) /\ PyTruthy(locate_config(items[i].v).command)
       THEN locate_config(items[i].v)
       ELSE LocateNested(items, i + 1)

\* locate_config
locate_config(config_dict) ==
  IF ~IsDict(config_dict) THEN NotLocated
  ELSE IF DictHas(config_dict.items, <<"command">>)
       THEN Located(DictGet(config_dict.items, <<"command">>),
                    DictGetDefault(config_dict.items, <<"args">>, PyList(<<>>)),
                    DictGetDefault(config_dict.items, <<"env">>, EmptyDict),
                    DictGetDefault(config_dict.items, <<"disabled_tools">>, PyList(<<>>)))
       ELSE LocateNested(config_dict.items, 1)

\* ------------------------------------------------------------ tool configs
\* config strings as users store them in Tool.config
\* a command at the root: {"command":"npx","args":["fetch"]}
ConfigRoot ==
  <<"{", "\"", "command", "\"", ":", "\"", "npx", "\"", ",", "\"", "args", "\"", ":", "[",
    "\"", "fetch", "\"", "]", "}">>

\* a command and a disabled list at the root: {"command":"npx","disabled_tools":["search"]}
ConfigRootDisabled ==
  <<"{", "\"", "command", "\"", ":", "\"", "npx", "\"", ",", "\"", "disabled_tools", "\"",
    ":", "[", "\"", "search", "\"", "]", "}">>

\* the command and its disabled list two levels down: {"mcpServers":{"fetch":{"command":"uvx","args":["fetch"],"disabled_tools":["search"]}}}
ConfigNested ==
  <<"{", "\"", "mcpServers", "\"", ":", "{", "\"", "fetch", "\"", ":", "{", "\"",
    "command", "\"", ":", "\"", "uvx", "\"", ",", "\"", "args", "\"", ":", "[", "\"",
    "fetch", "\"", "]", ",", "\"", "disabled_tools", "\"", ":", "[", "\"", "search", "\"",
    "]", "}", "}", "}">>

\* a nested command, the disabled list at the root: {"disabled_tools":["search"],"mcpServers":{"fetch":{"command":"uvx"}}}
ConfigNestedRootDisabled ==
  <<"{", "\"", "disabled_tools", "\"", ":", "[", "\"", "search", "\"", "]", ",", "\"",
    "mcpServers", "\"", ":", "{", "\"", "fetch", "\"", ":", "{", "\"", "command", "\"",
    ":", "\"", "uvx", "\"", "}", "}", "}">>

\* a server whose command is the empty string before one that has a command: {"mcpServers":{"a":{"command":""},"b":{"command":"npx"}}}
ConfigEmptyCommand ==
  <<"{", "\"", "mcpServers", "\"", ":", "{", "\"", "a", "\"", ":", "{", "\"", "command",
    "\"", ":", "\"", "\"", "}", ",", "\"", "b", "\"", ":", "{", "\"", "command", "\"", ":",
    "\"", "npx", "\"", "}", "}", "}">>

\* one nested mapping, its command the empty string: {"a":{"command":""}}
ConfigOnlyEmptyCommand ==
  <<"{", "\"", "a", "\"", ":", "{", "\"", "command", "\"", ":", "\"", "\"", "}", "}">>

\* the server mappings in a list: {"mcpServers":[{"command":"npx"}]}
ConfigInList ==
  <<"{", "\"", "mcpServers", "\"", ":", "[", "{", "\"", "command", "\"", ":", "\"", "npx",
    "\"", "}", "]", "}">>

\* no command anywhere: {"args":["fetch"]}
ConfigNoCommand ==
  <<"{", "\"", "args", "\"", ":", "[", "\"", "fetch", "\"", "]", "}">>

\* a command under the first key, deeper than the one under the second: {"a":{"b":{"command":"npx"}},"x":{"command":"uvx"}}
ConfigDeepFirst ==
  <<"{", "\"", "a", "\"", ":", "{", "\"", "b", "\"", ":", "{", "\"", "command", "\"", ":",
    "\"", "npx", "\"", "}", "}", ",", "\"", "x", "\"", ":", "{", "\"", "command", "\"",
    ":", "\"", "uvx", "\"", "}", "}">>

\* a command at the root after a key that holds one: {"a":{"command":"npx"},"command":"uvx"}
ConfigRootFirst ==
  <<"{", "\"", "a", "\"", ":", "{", "\"", "command", "\"", ":", "\"", "npx", "\"", "}",
    ",", "\"", "command", "\"", ":", "\"", "uvx", "\"", "}">>

\* a trailing comma: {"command":"npx",}
ConfigTrailingComma ==
  <<"{", "\"", "command", "\"", ":", "\"", "npx", "\"", ",", "}">>

\* a key without quotes: {command:"npx","args":["fetch"]}
ConfigBareKey ==
  <<"{", "command", ":", "\"", "npx", "\"", ",", "\"", "args", "\"", ":", "[", "\"",
    "fetch", "\"", "]", "}">>

\* cut off inside the args: {"command":"npx","args":["fetch"
ConfigTruncated ==
  <<"{", "\"", "command", "\"", ":", "\"", "npx", "\"", ",", "\"", "args", "\"", ":", "[",
    "\"", "fetch", "\"">>

\* key=value words: command=npx args=fetch
ConfigLoose ==
  <<"command", "=", "npx", " ", "args", "=", "fetch">>

\* a list: ["npx","fetch"]
ConfigList ==
  <<"[", "\"", "npx", "\"", ",", "\"", "fetch", "\"", "]">>

\* valid JSON whose string holds a comma before a brace: {"a":",}"}
ConfigQuotedBrace ==
  <<"{", "\"", "a", "\"", ":", "\"", ",", "}", "\"", "}">>

KnownConfigs ==
  {ConfigRoot, ConfigRootDisabled, ConfigNested, ConfigNestedRootDisabled, ConfigEmptyCommand, ConfigOnlyEmptyCommand,
   ConfigInList, ConfigNoCommand, ConfigDeepFirst, ConfigRootFirst, ConfigTrailingComma, ConfigBareKey,
   ConfigTruncated, ConfigLoose, ConfigList, ConfigQuotedBrace}

\* the characters of the short config strings
ConfigAlphabet == {"{", "}", "[", "]", "\"", ":", ",", " ", "=", "a", "1"}

\* every text over ConfigAlphabet of at most MaxConfigLen characters, and the
\* known configs
ConfigStrings ==
  UNION {[1..n -> ConfigAlphabet] : n \in 0..MaxConfigLen} \cup KnownConfigs


\* ----------------------------------------------------------------- registry
\* _synced_workflow_queues is a Manager dict: insertion-ordered entries.  Its keys
\* are session ids (str, uuid4) and workflow or agent ids (uuid.UUID); here
\* session ids are 1, 2, ... and workflow and agent ids are above 100.
WorkflowIds == {101, 102, 103}
AgentIds == {201}
SessionIds == 1..MaxSessions
NoQueue == 0

IsSessionKey(k) == k \in SessionIds

\* the value stored under a session id: a proxy of a nested manager dict
DictProxy(input, output) ==
  [type |-> "DictProxy", input |-> input, output |-> output, str |-> 0]

\* the value stored under a workflow id: the session id, a str
StrValue(sid) == [type |-> "str", input |-> NoQueue, output |-> NoQueue, str |-> sid]

RegKeys(reg) == {reg[i].k : i \in 1..Len(reg)}

RegHas(reg, k) == k \in RegKeys(reg)

RegGet(reg, k) == reg[CHOOSE i \in 1..Len(reg) : reg[i].k = k].v

\* d[k] = v: a new key goes last, an existing key keeps its place
RegSet(reg, k, v) ==
  IF RegHas(reg, k)
  THEN [i \in 1..Len(reg) |-> IF reg[i].k = k THEN [k |-> k, v |-> v] ELSE reg[i]]
  ELSE Append(reg, [k |-> k, v |-> v])

RECURSIVE RegPop(_, _)
\* d.pop(k, None)
RegPop(reg, k) ==
  IF reg = <<>> THEN <<>>
  ELSE IF Head(reg).k = k THEN Tail(reg) ELSE <<Head(reg)>> \o RegPop(Tail(reg), k)

\* isinstance(value, dict) for a value read from the registry: the nested
\* sync_manager.dict() is read back as a multiprocessing.managers.DictProxy,
\* which is not a subclass of dict; the workflow entries are str
IsInstanceDict(v) == v.type = "dict"

\* v == id as Python evaluates it: a DictProxy compares by identity, a str
\* equals only a str (never a uuid.UUID)
ValueEquals(v, id) == v.type = "str" /\ IsSessionKey(id) /\ v.str = id

\* get_workflow_queues: _synced_workflow_queues.get(session_id)
NoneValue == [type |-> "None", input |-> NoQueue, output |-> NoQueue, str |-> 0]

get_workflow_queues_latest(reg, session_id) ==
  LET proxies == {i \in 1..Len(reg) : reg[i].v.type = "DictProxy"}
  IN IF proxies = {} THEN NoneValue
     ELSE reg[CHOOSE i \in proxies : \A j \in proxies : j <= i].v

get_workflow_queues(reg, session_id) ==
  IF RegHas(reg, session_id) THEN RegGet(reg, session_id) ELSE NoneValue

RECURSIVE get_all_session_for_workflow(_, _)
\* [k for k, v in _synced_workflow_queues.items() if v == workflow_id]
get_all_session_for_workflow(reg, workflow_id) ==
  IF reg = <<>> THEN <<>>
  ELSE (IF ValueEquals(Head(reg).v, workflow_id) THEN <<Head(reg).k>> ELSE <<>>)
         \o get_all_session_for_workflow(Tail(reg), workflow_id)

\* ------------------------------------------------------------ capabilities
\* the characters re.sub(r'[^a-zA-Z0-9_-]', '_', name) keeps
NameChars ==
  {"a","b","c","d","e","f","g","h","i","j","k","l","m","n","o","p","q","r","s","t",
   "u","v","w","x","y","z","A","B","C","D","E","F","G","H","I","J","K","L","M","N",
   "O","P","Q","R","S","T","U","V","W","X","Y","Z","0","1","2","3","4","5","6","7",
   "8","9","_","-"}

\* re.sub(r'[^a-zA-Z0-9_-]', '_', agent.__agent_name)
Sanitize(name) == [i \in 1..Len(name) |-> IF name[i] \in NameChars THEN name[i] ELSE "_"]

\* str.lower() on the tool names of the model
LowerAtom(a) ==
  CASE a = "Calculator" -> "calculator"
    [] a = "THINK" -> "think"
    [] a = "Use_LLM" -> "use_llm"
    [] OTHER -> a

Lower(text) == [i \in 1..Len(text) |-> LowerAtom(text[i])]

\* the keys of tool_mapping
BuiltinRegistry ==
  {"file_read", "file_write", "editor", "shell", "http_request", "python_repl",
   "calculator", "use_aws", "retrieve", "nova_reels", "memory", "environment",
   "generate_image", "image_reader", "journal", "think", "load_tool", "swarm",
   "current_time", "sleep", "agent_graph", "cron", "slack", "speak", "stop",
   "workflow", "batch"}

\* tool_mapping[key]: the operation a key maps to ('think' maps to think_tool)
BuiltinOperation(key) == IF key = "think" THEN "think_tool" ELSE key

Capability(kind, name) == [kind |-> kind, name |-> name, captured |-> ""]

\* the result of the factory: None, or a list of capabilities
NoneResult == [none |-> TRUE, list |-> <<>>]
ListResult(caps) == [none |-> FALSE, list |-> caps]

\* `if tool_instance:` is false for None and for an empty list
Truthy(result) == ~result.none /\ result.list # <<>>

\* mcp_client.list_tools_sync(): the names of the tools the server started by a
\* command exposes, in the order it reports them
list_tools_sync(command) ==
  CASE command = PyStr(<<"npx">>) -> <<"fetch", "search">>
    [] command = PyStr(<<"uvx">>) -> <<"search", "fetch", "crawl">>
    [] OTHER -> <<>>

\* tool.mcp_tool.name not in disabled_tools, for a list, a mapping or a str
NotDisabled(name, disabled_tools) ==
  CASE disabled_tools.t = "list" -> PyStr(<<name>>) \notin Range(ListElems(disabled_tools))
    [] disabled_tools.t = "dict" -> ~DictHas(disabled_tools.items, <<name>>)
    [] OTHER -> name \notin Range(disabled_tools.s)

McpCapabilities(names) == [i \in 1..Len(names) |-> Capability("mcp", <<names[i]>>)]

\* the mcp branch of _create_tool_instance_from_data: None where it returns None
\* or raises inside its try (config.get on a value that is not a mapping, the
\* client failing to start, `in` on a number)
McpTools(config, env) ==
  LET located == locate_config(config)
      disabled_tools == DictGetDefault(config.items, <<"disabled_tools">>, PyList(<<>>))
      all_tools == list_tools_sync(located.command)
  IN IF ~IsDict(config) \/ ~PyTruthy(located.command) \/ env.mcp_fails THEN NoneResult
     ELSE IF PyTruthy(disabled_tools) /\ all_tools # <<>>
     THEN IF disabled_tools.t \in {"int", "bool"} THEN NoneResult
          ELSE ListResult(McpCapabilities(
                 FilterSeq(all_tools, {n \in Range(all_tools) : NotDisabled(n, disabled_tools)})))
     ELSE ListResult(McpCapabilities(all_tools))

\* _create_tool_instance_from_data
create_tool_instance_from_data(tool_data, env) ==
  IF tool_data.tool_type = "builtin"
  THEN LET tool_name_lower == Lower(tool_data.name)
       IN IF Len(tool_name_lower) = 1 /\ tool_name_lower[1] \in BuiltinRegistry
          THEN ListResult(<<Capability("builtin", <<BuiltinOperation(tool_name_lower[1])>>)>>)
          ELSE NoneResult
  ELSE IF tool_data.tool_type = "mcp"
  THEN McpTools(parse_config(tool_data.config), env)
  ELSE IF tool_data.tool_type = "agent" /\ tool_data.agent_id # 0
  THEN ListResult(<<Capability("agent_tool_function", tool_data.name)>>)
  ELSE NoneResult

RECURSIVE AgentToolsUntilFailure(_, _)
AgentToolsUntilFailure(tools_data, env) ==
  IF tools_data = <<>> THEN <<>>
  ELSE LET tool_instance == create_tool_instance_from_data(Head(tools_data), env)
       IN IF Truthy(tool_instance)
          THEN tool_instance.list \o AgentToolsUntilFailure(Tail(tools_data), env)
          ELSE <<>>

\* `if tool_instance: agent_tools += tool_instance`: what one tool adds
AddedTools(tool_instance) == IF Truthy(tool_instance) THEN tool_instance.list ELSE <<>>

RECURSIVE AgentToolsFrom(_, _)
\* the loop of create_agent over agent_ref['tools']
AgentToolsFrom(tools_data, env) ==
  IF tools_data = <<>> THEN <<>>
  ELSE AddedTools(create_tool_instance_from_data(Head(tools_data), env))
         \o AgentToolsFrom(Tail(tools_data), env)

\* get_model_with_cross_region_profile: profile_map.get(model_id, model_id)
CrossRegionModel(model_id) == IF model_id = "nova" THEN "us.nova" ELSE model_id

NoAgent == [none |-> TRUE]

\* a StrandsAgent object; oid tells objects apart (identity)
StrandsAgent(oid, name, description, system_prompt, tools, model) ==
  [none |-> FALSE, oid |-> oid, agent_name |-> name, agent_description |-> description,
   system_prompt |-> system_prompt, tools |-> tools, model |-> model]

\* create_agent: None without reference data or when StrandsAgent(...) raises
create_agent(agent_data, env) ==
  IF ~agent_data.has_reference THEN NoAgent
  ELSE LET agent_ref == agent_data.reference
           agent_tools == AgentToolsFrom(agent_ref.tools, env)
           model_arg == IF agent_ref.model_id # "" THEN CrossRegionModel(agent_ref.model_id)
                        ELSE ""
       IN IF agent_ref.id \in env.agent_fails THEN NoAgent
          ELSE StrandsAgent(agent_data.id, agent_ref.name, agent_ref.description,
                            agent_ref.prompt, agent_tools, model_arg)

\* create_tool: a tool node's capabilities
create_tool(tool_data, env) ==
  IF ~tool_data.has_reference THEN NoneResult
  ELSE create_tool_instance_from_data(tool_data.reference, env)

\* `if agent: agents.append(agent)`
AppendedAgent(agent) == IF ~agent.none THEN <<agent>> ELSE <<>>

RECURSIVE NodeAgents(_, _)
\* create_nodes: the agents list
NodeAgents(nodes, env) ==
  IF nodes = <<>> THEN <<>>
  ELSE AppendedAgent(IF Head(nodes).type = "agent" THEN create_agent(Head(nodes), env)
                     ELSE NoAgent)
         \o NodeAgents(Tail(nodes), env)

\* `if tool_instance: tools.append(tool_instance)`
AppendedTools(tool_instance) == IF Truthy(tool_instance) THEN <<tool_instance.list>> ELSE <<>>

RECURSIVE NodeTools(_, _)
\* create_nodes: workflow_context['tools'], a list of capability lists
NodeTools(nodes, env) ==
  IF nodes = <<>> THEN <<>>
  ELSE AppendedTools(IF Head(nodes).type = "tool" THEN create_tool(Head(nodes), env)
                     ELSE NoneResult)
         \o NodeTools(Tail(nodes), env)

create_nodes(workflow_context, env) ==
  [agents |-> NodeAgents(workflow_context.nodes, env),
   tools |-> NodeTools(workflow_context.nodes, env)]

\* ----------------------------------------------------- orchestrator synthesis
NodeById(nodes, id) == nodes[CHOOSE i \in 1..Len(nodes) : nodes[i].id = id]

HasNode(nodes, id) == \E i \in 1..Len(nodes) : nodes[i].id = id

\* node.get('reference', {}).get('name', f"Node {node_id}")
NodeName(node) == IF node.has_reference THEN node.reference.name ELSE <<"Node ", node.id>>

RECURSIVE PromptNodeLines(_)
PromptNodeLines(nodes) ==
  IF nodes = <<>> THEN <<>>
  ELSE (IF Head(nodes).type \notin {"input", "output"}
        THEN <<"- ">> \o NodeName(Head(nodes)) \o <<" (ID: ", Head(nodes).id, ", Type: ",
                 Head(nodes).type, ")\n">>
        ELSE <<>>) \o PromptNodeLines(Tail(nodes))

EdgeSourceNameUnsubstituted(nodes, id) ==
  IF ~HasNode(nodes, id) THEN <<"Node ", id>> ELSE NodeName(NodeById(nodes, id))

EdgeSourceName(nodes, id) ==
  IF ~HasNode(nodes, id) THEN <<"Node ", id>>
  ELSE IF NodeById(nodes, id).type = "input" THEN <<"the initial input">>
  ELSE NodeName(NodeById(nodes, id))

EdgeTargetName(nodes, id) ==
  IF ~HasNode(nodes, id) THEN <<"Node ", id>>
  ELSE IF NodeById(nodes, id).type = "output" THEN <<"the user as final response">>
  ELSE NodeName(NodeById(nodes, id))

EdgeLine(nodes, edge) ==
  <<"- You can from ">> \o EdgeSourceName(nodes, edge.source) \o <<" send the result to the ">>
    \o EdgeTargetName(nodes, edge.target) \o <<"\n">>

RECURSIVE PromptEdgeLines(_, _)
PromptEdgeLines(nodes, edges) ==
  IF edges = <<>> THEN <<>>
  ELSE EdgeLine(nodes, Head(edges)) \o PromptEdgeLines(nodes, Tail(edges))

PromptInstructions ==
  <<"\n## Instructions\n",
    "1. When you receive a user message, identify the appropriate starting point in the workflow.\n",
    "2. Route the message through the workflow according to the graph structure.\n",
    "3. Each agent or tool in the workflow will process the message and produce a response.\n",
    "4. Follow the graph edges to determine the next node (agent or tool) to invoke.\n",
    "5. For agent nodes, use the corresponding agent tool to process the message.\n",
    "6. For tool nodes, use the corresponding tool directly to process the message.\n",
    "7. Return the final response to the user.\n">>

\* _generate_workflow_prompt
generate_workflow_prompt(workflow_context) ==
  <<"# Workflow: ">> \o workflow_context.name \o <<"\n\n">>
    \o workflow_context.description \o <<"\n\n">>
    \o <<"## Your Role\n",
         "You are the Workflow Orchestrator responsible for managing the execution of this workflow. ",
         "You receive user messages and route them through the workflow according to the graph structure below.\n\n",
         "## Workflow Graph Structure\n", "### Nodes:\n">>
    \o PromptNodeLines(workflow_context.nodes)
    \o <<"\n### Edges:\n">>
    \o PromptEdgeLines(workflow_context.nodes, workflow_context.edges)
    \o PromptInstructions

\* agent_wrapper = tool(capture()): named by the sanitized display name
AgentWrapper(agent) ==
  [kind |-> "agent_wrapper", name |-> Sanitize(agent.agent_name), captured |-> agent.oid]

\* _create_orchestrator; it raises when the model lookup or StrandsAgent(...) does
create_orchestrator(workflow_context, agents, tools, env) ==
  LET all_tools == [i \in 1..Len(agents) |-> AgentWrapper(agents[i])] \o Flatten(tools)
      system_prompt == generate_workflow_prompt(workflow_context)
      model_id == IF workflow_context.model_id # ""
                  THEN CrossRegionModel(workflow_context.model_id) ELSE ""
  IN IF env.orchestrator_fails THEN [raised |-> TRUE, orchestrator |-> NoAgent]
     ELSE [raised |-> FALSE,
           orchestrator |-> StrandsAgent("orchestrator", <<>>, <<>>, system_prompt,
                                         all_tools, model_id)]

UseBareAgentNever(workflow_context, agents) == FALSE

\* _processing_thread, line 203: `if len(agents) > 1` is false
UseBareAgent(workflow_context, agents) == ~(Len(agents) > 1)

\* _processing_thread lines 203-217: the synthesized orchestrator, or agents[0]
ChooseOrchestrator(workflow_context, created, env) ==
  IF ~UseBareAgent(workflow_context, created.agents)
  THEN create_orchestrator(workflow_context, created.agents, created.tools, env)
  ELSE IF created.agents = <<>> THEN [raised |-> TRUE, orchestrator |-> NoAgent]
       ELSE [raised |-> FALSE, orchestrator |-> created.agents[1]]

\* _processing_thread up to the STARTED signal: the orchestrator of the session,
\* or an exception (agents[0] of an empty list, or _create_orchestrator raising)
InitOrchestrator(workflow_context, env) ==
  ChooseOrchestrator(workflow_context, create_nodes(workflow_context, env), env)

\* ------------------------------------------------------- persisted records
\* Tool rows: id, name, tool_type, config, agent_id (0 is NULL)
ToolRow(id, name, tool_type, agent_id) ==
  [id |-> id, name |-> name, tool_type |-> tool_type, config |-> <<>>, agent_id |-> agent_id]

ToolCalculator == ToolRow(301, <<"Calculator">>, "builtin", 0)
ToolThink == ToolRow(302, <<"think">>, "builtin", 0)
ToolUnknown == ToolRow(303, <<"no_such_tool">>, "builtin", 0)
ToolUseLlm == ToolRow(304, <<"use_llm">>, "builtin", 0)
ToolNested == ToolRow(305, <<"S", "u", "b", " ", "1">>, "agent", 204)
ToolBadKind == ToolRow(306, <<"odd">>, "webhook", 0)
ToolNoAgent == ToolRow(307, <<"Sub_0">>, "agent", 0)

McpToolRow(id, name, config) == [ToolRow(id, name, "mcp", 0) EXCEPT !.config = config]

ToolMcpRoot == McpToolRow(311, <<"web">>, ConfigRootDisabled)
ToolMcpNested == McpToolRow(312, <<"web nested">>, ConfigNested)
ToolMcpNoCommand == McpToolRow(313, <<"no command">>, ConfigNoCommand)
ToolMcpList == McpToolRow(314, <<"a list">>, ConfigList)

\* Agent rows joined with their tool associations, as load_workflow and load_agent
\* build node_data['reference']
AgentRow(id, name, prompt, model_id, tools) ==
  [id |-> id, name |-> name, prompt |-> prompt, model_id |-> model_id,
   description |-> <<"about ">> \o name, tools |-> tools]

AgentSolo ==
  AgentRow(201, <<"S", "o", "l", "o">>, <<"You answer alone.">>, "nova",
           <<ToolCalculator, ToolUnknown>>)
AgentSummarizer ==
  AgentRow(202, <<"S", "u", "m", "m", "a", "r", "i", "z", "e", "r">>,
           <<"Summarize the input.">>, "", <<ToolThink, ToolUseLlm>>)
AgentA ==
  AgentRow(203, <<"A">>, <<"You are A.">>, "", <<ToolCalculator, ToolBadKind, ToolNested>>)
AgentB == AgentRow(204, <<"B", " ", "2">>, <<"You are B.">>, "nova", <<>>)
AgentFetcher ==
  AgentRow(205, <<"F", "e", "t", "c", "h", "e", "r">>, <<"You fetch pages.">>, "",
           <<ToolMcpNoCommand, ToolMcpNested, ToolUnknown, ToolCalculator, ToolMcpList,
             ToolMcpRoot, ToolBadKind, ToolThink>>)

NoReference == [id |-> 0]

Node(id, type, has_reference, reference) ==
  [id |-> id, type |-> type, has_reference |-> has_reference, reference |-> reference]

AgentNode(id, agent) == Node(id, "agent", TRUE, agent)
ToolNode(id, tool) == Node(id, "tool", TRUE, tool)
PlainNode(id, type) == Node(id, type, FALSE, NoReference)

Edge(source, target) == [source |-> source, target |-> target]

\* Workflow rows with their nodes and edges
WorkflowRow(id) ==
  CASE id = 101 ->
         [name |-> <<"Summary">>, description |-> <<"Summarize what the user says">>,
          model_id |-> "",
          nodes |-> <<PlainNode("n1", "input"), AgentNode("n2", AgentSummarizer),
                      PlainNode("n3", "output")>>,
          edges |-> <<Edge("n1", "n2"), Edge("n2", "n3")>>]
    [] id = 102 ->
         [name |-> <<"Pair">>, description |-> <<"A then B">>, model_id |-> "nova",
          nodes |-> <<AgentNode("n4", AgentA), AgentNode("n5", AgentB),
                      ToolNode("n6", ToolThink)>>,
          edges |-> <<Edge("n4", "n5")>>]
    [] OTHER ->
         [name |-> <<"Hollow">>, description |-> <<"No agent">>, model_id |-> "",
          nodes |-> <<PlainNode("n7", "input"), PlainNode("n8", "output")>>,
          edges |-> <<Edge("n7", "n8")>>]

\* load_workflow: the workflow's rows joined into one context; last_edited is the
\* edit time read at load
load_workflow(workflow_id, last_edited) ==
  LET row == WorkflowRow(workflow_id)
  IN [id |-> workflow_id, name |-> row.name, description |-> row.description,
      model_id |-> row.model_id, nodes |-> row.nodes, edges |-> row.edges,
      last_edited |-> last_edited]

\* load_agent: a one-node, zero-edge context around the agent (last_edited is None)
load_agent(agent_id) ==
  LET row == AgentSolo
  IN [id |-> agent_id, name |-> row.name, description |-> row.description,
      model_id |-> row.model_id, nodes |-> <<AgentNode("agent-201", row)>>,
      edges |-> <<>>, last_edited |-> 0]

\* what the environment does to object construction during one initialisation:
\* the agents whose StrandsAgent(...) raises, and whether the orchestrator's does
Env(agent_fails, orchestrator_fails) ==
  [agent_fails |-> agent_fails, orchestrator_fails |-> orchestrator_fails, mcp_fails |-> FALSE]

\* the same, with every mcp_client.start() raising
McpFailing(env) == [env EXCEPT !.mcp_fails = TRUE]

WorkerEnvs == {Env({}, FALSE), Env({203}, FALSE), Env({}, TRUE), McpFailing(Env({}, FALSE))}

\* the message texts a client sends
ClientMessages ==
  {<<" ", "hello", " ">>, <<"bye">>, <<" ">>, TERMINATE, RETRIEVE}

\* ------------------------------------------------------------------- state
VARIABLES
  registry,        \* _synced_workflow_queues
  nextSid,         \* the next session id uuid4 yields
  known,           \* session ids an activation has returned to its client
  inq, outq,       \* the input and output Queue of each session
  inPuts, outPuts, \* history: every message ever put on them by put(), in order
  wpc,             \* each worker process: none, init, recv, proc, terminated, crashed
  ctx,             \* its workflow_context
  hist,            \* workflow_context['conversation_history']
  orch,            \* workflow_context['orchestrator']
  cur, frags,      \* the message of the turn in progress, the fragments streamed in it
  web,             \* the handler each web process is running
  resp,            \* the last response each web process sent
  gens,            \* the streaming generators (_event_generator)
  lastEdited,      \* Workflow.last_edited
  dbAgents,        \* the Agent rows
  edit_timestamps, \* WorkflowRunner._workflow_edit_timestamps of each web process
  nRetrieves, nResets, nDeletes, nEdits,
  conf,            \* a tool config on its way through parse_config and locate_config
  made             \* a tool row on its way through the factory, and a use of what it made

regVars == <<registry, nextSid, known>>
queueVars == <<inq, outq, inPuts, outPuts>>
workerVars == <<wpc, ctx, hist, orch, cur, frags>>
dbVars == <<lastEdited, dbAgents, edit_timestamps>>
countVars == <<nRetrieves, nResets, nDeletes, nEdits>>
toolVars == <<conf, made>>
vars == <<regVars, queueVars, workerVars, web, resp, gens, dbVars, countVars, toolVars>>

sessionVars == <<regVars, queueVars, workerVars, web, resp, gens, dbVars, countVars>>

\* a tool's config: the text of the row, what parse_config attempted on it, the
\* value it made of it, the tuple locate_config made of that
Conf(pc, config_str) ==
  [pc |-> pc, config_str |-> config_str, attempts |-> <<>>, config |-> PyNone,
   located |-> NotLocated]

NoConf == Conf("none", <<>>)

\* a call of a capability: the capability, the text it got, what it returned, the
\* agents it ran
Call(capability, message, returned, ran) ==
  [capability |-> capability, message |-> message, returned |-> returned, ran |-> ran]

NoCall == Call(Capability("", <<>>), <<>>, <<>>, <<>>)

\* a tool row, the environment of its instantiation, what the factory returned
Made(pc, tool_data, env) ==
  [pc |-> pc, tool_data |-> tool_data, env |-> env, result |-> NoneResult, call |-> NoCall]

NoTool == Made("none", ToolRow(0, <<>>, "", 0), Env({}, FALSE))

WebWorkers == 1..NumWebWorkers
GenIds == 1..MaxSends

\* a handler: the operation, the place in it, the id it was called with, its
\* session id and queues, the sessions left to visit; absent records that the id
\* was not in the registry when a reset began
Idle ==
  [op |-> "idle", pc |-> "", id |-> 0, type |-> "", sid |-> 0, qs |-> NoneValue,
   todo |-> <<>>, absent |-> FALSE]

Response(op, id, status, history) ==
  [op |-> op, id |-> id, status |-> status, history |-> history]

\* a streaming generator: its place, conversation id, queues and message, what it
\* has yielded, a HISTORY message held for requeueing; stale records that the graph
\* had been edited after the session loaded it when the message was sent
FreeGen ==
  [pc |-> "free", cid |-> 0, qs |-> NoneValue, message |-> <<>>, received |-> <<>>,
   held |-> <<>>, stale |-> FALSE]

NoContext == [id |-> 0, last_edited |-> 0]

Init ==
  /\ registry = <<>> /\ nextSid = 1 /\ known = {}
  /\ inq = [s \in SessionIds |-> <<>>] /\ outq = [s \in SessionIds |-> <<>>]
  /\ inPuts = [s \in SessionIds |-> <<>>] /\ outPuts = [s \in SessionIds |-> <<>>]
  /\ wpc = [s \in SessionIds |-> "none"]
  /\ ctx = [s \in SessionIds |-> NoContext]
  /\ hist = [s \in SessionIds |-> <<>>]
  /\ orch = [s \in SessionIds |-> NoAgent]
  /\ cur = [s \in SessionIds |-> <<>>]
  /\ frags = [s \in SessionIds |-> 0]
  /\ web = [p \in WebWorkers |-> Idle]
  /\ resp = [p \in WebWorkers |-> Response("", 0, "", <<>>)]
  /\ gens = [g \in GenIds |-> FreeGen]
  /\ lastEdited = [w \in WorkflowIds |-> 1]
  /\ dbAgents = {201, 202, 203, 204}
  /\ edit_timestamps = [p \in WebWorkers |-> {}]
  /\ nRetrieves = 0 /\ nResets = 0 /\ nDeletes = 0 /\ nEdits = 0
  /\ conf = NoConf /\ made = NoTool

\* the client requests served or in service so far
Requests ==
  (nextSid - 1) + nRetrieves + nResets + nDeletes + nEdits
  + Cardinality({g \in GenIds : gens[g].pc # "free"})

\* Queue.put(message) on queue q
Put(queue, q, message) == [queue EXCEPT ![q] = Append(@, message)]

\* the handler of web process p raised: the response is a 500
Raise500(p) ==
  /\ resp' = [resp EXCEPT ![p] = Response(web[p].op, web[p].id, "500", <<>>)]
  /\ web' = [web EXCEPT ![p] = Idle]

\* ------------------------------------------------------------- activation
\* activate_workflow up to init_workflow_queues line 154: the 404 check, uuid4,
\* _synced_workflow_queues[session_id] = sync_manager.dict()
Activate(p, id, type) ==
  /\ web[p].op = "idle"
  /\ Requests < MaxRequests
  /\ nextSid <= MaxSessions
  /\ IF type = "agent" /\ id \notin dbAgents
     THEN /\ resp' = [resp EXCEPT ![p] = Response("activate", id, "404", <<>>)]
          /\ UNCHANGED <<web, regVars>>
     ELSE /\ registry' = RegSet(registry, nextSid, DictProxy(NoQueue, NoQueue))
          /\ nextSid' = nextSid + 1
          /\ web' = [web EXCEPT ![p] = [Idle EXCEPT !.op = "activate", !.pc = "l155",
                                          !.id = id, !.type = type, !.sid = nextSid]]
          /\ UNCHANGED <<resp, known>>
  /\ UNCHANGED <<queueVars, workerVars, gens, dbVars, toolVars, countVars>>

\* init_workflow_queues line 155: _synced_workflow_queues[session_id]['input'] = Queue()
ActivateInput(p) ==
  /\ web[p].op = "activate" /\ web[p].pc = "l155"
  /\ IF ~RegHas(registry, web[p].sid)
     THEN Raise500(p) /\ UNCHANGED registry
     ELSE /\ registry' = RegSet(registry, web[p].sid,
                                [RegGet(registry, web[p].sid) EXCEPT !.input = web[p].sid])
          /\ web' = [web EXCEPT ![p].pc = "l156"]
          /\ UNCHANGED resp
  /\ UNCHANGED <<nextSid, known, queueVars, workerVars, gens, dbVars, toolVars, countVars>>

\* init_workflow_queues line 156: ...['output'] = Queue()
ActivateOutput(p) ==
  /\ web[p].op = "activate" /\ web[p].pc = "l156"
  /\ IF ~RegHas(registry, web[p].sid)
     THEN Raise500(p) /\ UNCHANGED registry
     ELSE /\ registry' = RegSet(registry, web[p].sid,
                                [RegGet(registry, web[p].sid) EXCEPT !.output = web[p].sid])
          /\ web' = [web EXCEPT ![p].pc = "l157"]
          /\ UNCHANGED resp
  /\ UNCHANGED <<nextSid, known, queueVars, workerVars, gens, dbVars, toolVars, countVars>>

\* init_workflow_queues lines 157-158: _synced_workflow_queues[workflow_id] = session_id;
\* return _synced_workflow_queues[session_id]
ActivateIndex(p) ==
  /\ web[p].op = "activate" /\ web[p].pc = "l157"
  /\ registry' = RegSet(registry, web[p].id, StrValue(web[p].sid))
  /\ IF ~RegHas(registry, web[p].sid)
     THEN Raise500(p)
     ELSE /\ web' = [web EXCEPT ![p].pc = "start", ![p].qs = RegGet(registry, web[p].sid)]
          /\ UNCHANGED resp
  /\ UNCHANGED <<nextSid, known, queueVars, workerVars, gens, dbVars, toolVars, countVars>>

\* create_threaded_workflow / create_threaded_agent: the context is loaded in the
\* web process, then Process(target=_processing_thread, ...).start().  The row the
\* 404 check read is in the request's database session, so a concurrent delete
\* does not empty the loader's get(); loaded is FALSE when one of its queries raises
ActivateStart(p, loaded) ==
  /\ web[p].op = "activate" /\ web[p].pc = "start"
  /\ IF ~loaded
     THEN Raise500(p) /\ UNCHANGED <<wpc, ctx>>
     ELSE /\ ctx' = [ctx EXCEPT ![web[p].sid] =
                       IF web[p].type = "agent" THEN load_agent(web[p].id)
                       ELSE load_workflow(web[p].id, lastEdited[web[p].id])]
          /\ wpc' = [wpc EXCEPT ![web[p].sid] = "init"]
          /\ web' = [web EXCEPT ![p].pc = "wait"]
          /\ UNCHANGED resp
  /\ UNCHANGED <<regVars, queueVars, hist, orch, cur, frags, gens, dbVars, toolVars, countVars>>

ActivateReturnWithoutWaiting(p) ==
  /\ web[p].op = "activate" /\ web[p].pc = "wait"
  /\ known' = known \cup {web[p].sid}
  /\ resp' = [resp EXCEPT ![p] = Response("activate", web[p].sid, "ok", <<>>)]
  /\ web' = [web EXCEPT ![p] = Idle]
  /\ UNCHANGED <<registry, nextSid, queueVars, workerVars, gens, dbVars, toolVars, countVars>>

\* activate_workflow: qs['output'].get() blocks for the first message, then the
\* session id is returned
ActivateReturn(p) ==
  /\ web[p].op = "activate" /\ web[p].pc = "wait"
  /\ outq[web[p].qs.output] # <<>>
  /\ outq' = [outq EXCEPT ![web[p].qs.output] = Tail(@)]
  /\ known' = known \cup {web[p].sid}
  /\ resp' = [resp EXCEPT ![p] = Response("activate", web[p].sid, "ok", <<>>)]
  /\ web' = [web EXCEPT ![p] = Idle]
  /\ UNCHANGED <<registry, nextSid, inq, inPuts, outPuts, workerVars, gens, dbVars, toolVars,
               countVars>>

\* ---------------------------------------------------------------- the worker
WorkerInitSignalling(s, env) ==
  /\ wpc[s] = "init"
  /\ \E r \in {InitOrchestrator(ctx[s], env)} :
        /\ orch' = [orch EXCEPT ![s] = r.orchestrator]
        /\ wpc' = [wpc EXCEPT ![s] = IF r.raised THEN "crashed" ELSE "recv"]
  /\ outq' = Put(outq, s, STARTED)
  /\ outPuts' = Put(outPuts, s, STARTED)
  /\ UNCHANGED <<regVars, inq, inPuts, ctx, hist, cur, frags, web, resp, gens, dbVars, toolVars,
                 countVars>>

\* _processing_thread lines 199-224: create the nodes, choose or synthesize the
\* orchestrator, then output_queue.put("_Q_E_E_STARTED"); an exception ends the process
WorkerInit(s, env) ==
  /\ wpc[s] = "init"
  /\ \E r \in {InitOrchestrator(ctx[s], env)} :
        IF r.raised
        THEN /\ wpc' = [wpc EXCEPT ![s] = "crashed"]
             /\ UNCHANGED <<orch, outq, outPuts>>
        ELSE /\ orch' = [orch EXCEPT ![s] = r.orchestrator]
             /\ outq' = Put(outq, s, STARTED)
             /\ outPuts' = Put(outPuts, s, STARTED)
             /\ wpc' = [wpc EXCEPT ![s] = "recv"]
  /\ UNCHANGED <<regVars, inq, inPuts, ctx, hist, cur, frags, web, resp, gens, dbVars, toolVars,
                 countVars>>

HistoryMessageUnprefixed(h) == JsonDumpsHistory(h)

\* "_Q_E_E_HISTORY" + json.dumps(conversation_history, default=str)
HistoryMessage(h) == <<HISTORY_PREFIX>> \o JsonDumpsHistory(h)

UserEntry(message) == [role |-> "user", content |-> message]
AssistantEntry(text) == [role |-> "assistant", content |-> text]

WorkerReceiveTerminateFirst(s) ==
  /\ wpc[s] = "recv"
  /\ inq[s] # <<>>
  /\ LET message == IF TERMINATE \in Range(inq[s]) THEN TERMINATE ELSE Head(inq[s])
     IN IF message = TERMINATE
        THEN /\ inq' = [inq EXCEPT ![s] = <<>>]
             /\ wpc' = [wpc EXCEPT ![s] = "terminated"]
             /\ UNCHANGED <<outq, outPuts, hist, cur, frags>>
        ELSE IF message = RETRIEVE
        THEN /\ inq' = [inq EXCEPT ![s] = Tail(@)]
             /\ outq' = Put(outq, s, HistoryMessage(hist[s]))
             /\ outPuts' = Put(outPuts, s, HistoryMessage(hist[s]))
             /\ UNCHANGED <<wpc, hist, cur, frags>>
        ELSE /\ inq' = [inq EXCEPT ![s] = Tail(@)]
             /\ hist' = [hist EXCEPT ![s] = Append(@, UserEntry(message))]
             /\ cur' = [cur EXCEPT ![s] = message]
             /\ frags' = [frags EXCEPT ![s] = 0]
             /\ wpc' = [wpc EXCEPT ![s] = "proc"]
             /\ UNCHANGED <<outq, outPuts>>
  /\ UNCHANGED <<regVars, inPuts, ctx, orch, web, resp, gens, dbVars, toolVars, countVars>>

\* _processing_thread lines 228-249: message = input_queue.get(), then the branch on it
WorkerReceive(s) ==
  /\ wpc[s] = "recv"
  /\ inq[s] # <<>>
  /\ inq' = [inq EXCEPT ![s] = Tail(@)]
  /\ LET message == Head(inq[s])
     IN IF message = TERMINATE
        THEN /\ wpc' = [wpc EXCEPT ![s] = "terminated"]
             /\ UNCHANGED <<outq, outPuts, hist, cur, frags>>
        ELSE IF message = RETRIEVE
        THEN /\ outq' = Put(outq, s, HistoryMessage(hist[s]))
             /\ outPuts' = Put(outPuts, s, HistoryMessage(hist[s]))
             /\ UNCHANGED <<wpc, hist, cur, frags>>
        ELSE /\ hist' = [hist EXCEPT ![s] = Append(@, UserEntry(message))]
             /\ cur' = [cur EXCEPT ![s] = message]
             /\ frags' = [frags EXCEPT ![s] = 0]
             /\ wpc' = [wpc EXCEPT ![s] = "proc"]
             /\ UNCHANGED <<outq, outPuts>>
  /\ UNCHANGED <<regVars, inPuts, ctx, orch, web, resp, gens, dbVars, toolVars, countVars>>

\* top_level_callback_handler / agent_level_callback_handler during orchestrator(message):
\* each delta is put on the output queue at once
WorkerFragment(s) ==
  /\ wpc[s] = "proc"
  /\ frags[s] < MaxFrags
  /\ frags' = [frags EXCEPT ![s] = @ + 1]
  /\ outq' = Put(outq, s, DataFragment(frags[s] + 1))
  /\ outPuts' = Put(outPuts, s, DataFragment(frags[s] + 1))
  /\ UNCHANGED <<regVars, inq, inPuts, wpc, ctx, hist, orch, cur, web, resp, gens, dbVars, toolVars,
                 countVars>>

WorkerAnswerUnrecorded(s) ==
  /\ wpc[s] = "proc"
  /\ outq' = Put(outq, s, ANSWERED)
  /\ outPuts' = Put(outPuts, s, ANSWERED)
  /\ wpc' = [wpc EXCEPT ![s] = "recv"]
  /\ cur' = [cur EXCEPT ![s] = <<>>]
  /\ frags' = [frags EXCEPT ![s] = 0]
  /\ UNCHANGED <<regVars, inq, inPuts, ctx, hist, orch, web, resp, gens, dbVars, toolVars,
                 countVars>>

\* _processing_thread lines 251-260: orchestrator(message) returned
WorkerAnswer(s) ==
  /\ wpc[s] = "proc"
  /\ hist' = [hist EXCEPT ![s] = Append(@, AssistantEntry(AnswerText(cur[s])))]
  /\ outq' = Put(outq, s, ANSWERED)
  /\ outPuts' = Put(outPuts, s, ANSWERED)
  /\ wpc' = [wpc EXCEPT ![s] = "recv"]
  /\ cur' = [cur EXCEPT ![s] = <<>>]
  /\ frags' = [frags EXCEPT ![s] = 0]
  /\ UNCHANGED <<regVars, inq, inPuts, ctx, orch, web, resp, gens, dbVars, toolVars, countVars>>

\* _processing_thread line 251: orchestrator(message) raised; nothing catches it
WorkerRaise(s) ==
  /\ wpc[s] = "proc"
  /\ wpc' = [wpc EXCEPT ![s] = "crashed"]
  /\ UNCHANGED <<regVars, queueVars, ctx, hist, orch, cur, frags, web, resp, gens, dbVars, toolVars,
                 countVars>>

\* ------------------------------------------------------------- termination
\* One registry operation of clear_all_workflow_sessions(h.id), from the place
\* h.pc of the handler h.  The result: the handler after it (pc "cleared" when
\* the function has returned, "raised" on a KeyError), the registry after it,
\* and the input queue TERMINATE was put on (NoQueue when none).
clear_all_workflow_sessions(h, reg) ==
  LET goto(pc) == [h |-> [h EXCEPT !.pc = pc], reg |-> reg, put |-> NoQueue]
      next_session == [h |-> [h EXCEPT !.pc = "c178in", !.todo = Tail(h.todo)],
                       reg |-> reg, put |-> NoQueue]
      put_to(k, pc) ==
        IF ~RegHas(reg, k) \/ RegGet(reg, k).input = NoQueue THEN goto("raised")
        ELSE [h |-> [h EXCEPT !.pc = pc], reg |-> reg, put |-> RegGet(reg, k).input]
  IN CASE h.pc = "c168in" ->    \* line 168: id_to_clear in _synced_workflow_queues
            IF RegHas(reg, h.id) THEN goto("c168get") ELSE goto("c174")
       [] h.pc = "c168get" ->   \* line 168: isinstance(_synced_workflow_queues[id], dict)
            IF ~RegHas(reg, h.id) THEN goto("raised")
            ELSE IF IsInstanceDict(RegGet(reg, h.id)) THEN goto("c170") ELSE goto("c174")
       [] h.pc = "c170" ->      \* line 170: ...[id]['input'].put("_Q_E_E_TERMINATE")
            put_to(h.id, "c171")
       [] h.pc = "c171" ->      \* line 171: pop(id, None)
            [h |-> [h EXCEPT !.pc = "cleared"], reg |-> RegPop(reg, h.id), put |-> NoQueue]
       [] h.pc = "c174" ->      \* line 174: get_all_session_for_workflow(id)
            [h |-> [h EXCEPT !.pc = "c178in",
                             !.todo = get_all_session_for_workflow(reg, h.id)],
             reg |-> reg, put |-> NoQueue]
       [] h.pc = "c178in" ->    \* lines 176-178: next session; session in registry
            IF h.todo = <<>> THEN goto("c182in")
            ELSE IF RegHas(reg, Head(h.todo)) THEN goto("c178get") ELSE next_session
       [] h.pc = "c178get" ->   \* line 178: isinstance(_synced_workflow_queues[session], dict)
            IF ~RegHas(reg, Head(h.todo)) THEN goto("raised")
            ELSE IF IsInstanceDict(RegGet(reg, Head(h.todo))) THEN goto("c179")
                 ELSE next_session
       [] h.pc = "c179" ->      \* line 179: ...[session]['input'].put("_Q_E_E_TERMINATE")
            put_to(Head(h.todo), "c180")
       [] h.pc = "c180" ->      \* line 180: pop(session, None)
            [h |-> [h EXCEPT !.pc = "c178in", !.todo = Tail(h.todo)],
             reg |-> RegPop(reg, Head(h.todo)), put |-> NoQueue]
       [] h.pc = "c182in" ->    \* line 182: id_to_clear in _synced_workflow_queues
            IF RegHas(reg, h.id) THEN goto("c183") ELSE goto("cleared")
       [] OTHER ->              \* line 183: pop(id_to_clear, None)
            [h |-> [h EXCEPT !.pc = "cleared"], reg |-> RegPop(reg, h.id), put |-> NoQueue]

\* web process p takes one step of clear_all_workflow_sessions from handler state h;
\* reset_workflow answers when it has returned, delete_agent goes on to the database
ClearApply(p, h) ==
  LET r == clear_all_workflow_sessions(h, registry)
  IN /\ registry' = r.reg
     /\ inq' = IF r.put = NoQueue THEN inq ELSE Put(inq, r.put, TERMINATE)
     /\ inPuts' = IF r.put = NoQueue THEN inPuts ELSE Put(inPuts, r.put, TERMINATE)
     /\ IF r.h.pc = "raised"
        THEN /\ web' = [web EXCEPT ![p] = Idle]
             /\ resp' = [resp EXCEPT ![p] = Response(h.op, h.id, "500", <<>>)]
        ELSE IF r.h.pc = "cleared" /\ h.op = "reset"
        THEN /\ web' = [web EXCEPT ![p] = Idle]
             /\ resp' = [resp EXCEPT ![p] = Response(h.op, h.id, "ok", <<>>)]
        ELSE IF r.h.pc = "cleared"
        THEN /\ web' = [web EXCEPT ![p] = [r.h EXCEPT !.pc = "dbdel"]]
             /\ UNCHANGED resp
        ELSE /\ web' = [web EXCEPT ![p] = r.h]
             /\ UNCHANGED resp
     /\ UNCHANGED <<nextSid, known, outq, outPuts, workerVars, gens, dbVars, toolVars>>

\* reset_workflow with a conversation_id: clear_all_workflow_sessions(conversation_id)
Reset(p, conversation_id) ==
  /\ web[p].op = "idle"
  /\ Requests < MaxRequests
  /\ nResets < MaxResets
  /\ nResets' = nResets + 1
  /\ ClearApply(p, [Idle EXCEPT !.op = "reset", !.pc = "c168in", !.id = conversation_id,
                                !.absent = ~RegHas(registry, conversation_id)])
  /\ UNCHANGED <<nRetrieves, nDeletes, nEdits>>

\* delete_agent: clear_all_workflow_sessions(agent_id) first
DeleteAgent(p, agent_id) ==
  /\ web[p].op = "idle"
  /\ Requests < MaxRequests
  /\ nDeletes < MaxDeletes
  /\ nDeletes' = nDeletes + 1
  /\ ClearApply(p, [Idle EXCEPT !.op = "delete_agent", !.pc = "c168in", !.id = agent_id])
  /\ UNCHANGED <<nRetrieves, nResets, nEdits>>

\* the next registry operation of a termination in progress
ClearStep(p) ==
  /\ web[p].op \in {"reset", "delete_agent"}
  /\ web[p].pc # "dbdel"
  /\ ClearApply(p, web[p])
  /\ UNCHANGED countVars

\* delete_agent lines 958-968: the association rows and the agent row are deleted
DeleteAgentRows(p) ==
  /\ web[p].op = "delete_agent" /\ web[p].pc = "dbdel"
  /\ IF web[p].id \in dbAgents
     THEN /\ dbAgents' = dbAgents \ {web[p].id}
          /\ resp' = [resp EXCEPT ![p] = Response("delete_agent", web[p].id, "ok", <<>>)]
     ELSE /\ resp' = [resp EXCEPT ![p] = Response("delete_agent", web[p].id, "404", <<>>)]
          /\ UNCHANGED dbAgents
  /\ web' = [web EXCEPT ![p] = Idle]
  /\ UNCHANGED <<regVars, queueVars, workerVars, gens, lastEdited, edit_timestamps,
               toolVars, countVars>>

\* update_workflow: last_edited = utcnow(), commit, then
\* WorkflowRunner.clear_workflow_sessions(workflow_id), which pops the id from the
\* process's _workflow_contexts (always empty) and zeroes its edit timestamp
UpdateWorkflow(p, workflow_id) ==
  /\ web[p].op = "idle"
  /\ Requests < MaxRequests
  /\ nEdits < MaxEdits
  /\ nEdits' = nEdits + 1
  /\ lastEdited' = [lastEdited EXCEPT ![workflow_id] = @ + 1]
  /\ edit_timestamps' = [edit_timestamps EXCEPT ![p] = @ \cup {workflow_id}]
  /\ resp' = [resp EXCEPT ![p] = Response("update_workflow", workflow_id, "ok", <<>>)]
  /\ UNCHANGED <<regVars, queueVars, workerVars, web, gens, dbAgents, toolVars, nRetrieves, nResets,
                 nDeletes>>

\* ------------------------------------------------------------------ messages
\* the persisted graph of session s was edited after the session loaded it
Stale(s) == ctx[s].id \in WorkflowIds /\ lastEdited[ctx[s].id] > ctx[s].last_edited

\* send_message: strip, look the queues up, 400 for an empty message, otherwise a
\* StreamingResponse around _event_generator (which has not run yet)
SendMessage(p, conversation_id, text) ==
  /\ web[p].op = "idle"
  /\ Requests < MaxRequests
  /\ \E g \in GenIds : gens[g].pc = "free"
  /\ LET message == Strip(text)
         qs == get_workflow_queues(registry, conversation_id)
         g == CHOOSE g \in GenIds : gens[g].pc = "free" /\ \A f \in GenIds : gens[f].pc = "free" => g <= f
     IN IF message = <<>>
        THEN /\ resp' = [resp EXCEPT ![p] = Response("send_message", conversation_id, "400", <<>>)]
             /\ UNCHANGED gens
        ELSE /\ resp' = [resp EXCEPT ![p] = Response("send_message", conversation_id, "stream", <<>>)]
             /\ gens' = [gens EXCEPT ![g] = [FreeGen EXCEPT !.pc = "put", !.cid = conversation_id,
                                              !.qs = qs, !.message = message,
                                              !.stale = Stale(conversation_id)]]
  /\ UNCHANGED <<regVars, queueVars, workerVars, web, dbVars, toolVars, countVars>>

\* _event_generator line 861: qs['input'].put(message); qs is None for an unknown id
GeneratorPut(g) ==
  /\ gens[g].pc = "put"
  /\ IF gens[g].qs.type = "None"
     THEN /\ gens' = [gens EXCEPT ![g].pc = "error"]
          /\ UNCHANGED <<inq, inPuts>>
     ELSE /\ inq' = Put(inq, gens[g].qs.input, gens[g].message)
          /\ inPuts' = Put(inPuts, gens[g].qs.input, gens[g].message)
          /\ gens' = [gens EXCEPT ![g].pc = "get"]
  /\ UNCHANGED <<regVars, outq, outPuts, workerVars, web, resp, dbVars, toolVars, countVars>>

GeneratorGetForwarding(g) ==
  /\ gens[g].pc = "get"
  /\ outq[gens[g].qs.output] # <<>>
  /\ LET answer == Head(outq[gens[g].qs.output])
     IN /\ outq' = [outq EXCEPT ![gens[g].qs.output] = Tail(@)]
        /\ gens' = IF answer = ANSWERED THEN [gens EXCEPT ![g].pc = "done"]
                   ELSE [gens EXCEPT ![g].received = Append(@, answer)]
  /\ UNCHANGED <<regVars, inq, inPuts, outPuts, workerVars, web, resp, dbVars, toolVars, countVars>>

\* _event_generator lines 864-873: answer = qs['output'].get(); stop on ANSWERED,
\* hold a HISTORY message to put it back, yield anything else
GeneratorGet(g) ==
  /\ gens[g].pc = "get"
  /\ outq[gens[g].qs.output] # <<>>
  /\ LET answer == Head(outq[gens[g].qs.output])
     IN /\ outq' = [outq EXCEPT ![gens[g].qs.output] = Tail(@)]
        /\ gens' = IF answer = ANSWERED THEN [gens EXCEPT ![g].pc = "done"]
                   ELSE IF StartsWith(answer, HISTORY_PREFIX)
                   THEN [gens EXCEPT ![g].pc = "requeue", ![g].held = answer]
                   ELSE [gens EXCEPT ![g].received = Append(@, answer)]
  /\ UNCHANGED <<regVars, inq, inPuts, outPuts, workerVars, web, resp, dbVars, toolVars, countVars>>

\* _event_generator lines 869-872: qs['output'].put(answer); time.sleep(0.2); continue
GeneratorRequeue(g) ==
  /\ gens[g].pc = "requeue"
  /\ outq' = Put(outq, gens[g].qs.output, gens[g].held)
  /\ gens' = [gens EXCEPT ![g].pc = "get", ![g].held = <<>>]
  /\ UNCHANGED <<regVars, inq, inPuts, outPuts, workerVars, web, resp, dbVars, toolVars, countVars>>

\* retrieve_conversation_history lines 898-914: 404 for an unknown id, otherwise
\* qs['input'].put("_Q_E_E_RETRIEVE")
RetrieveHistory(p, conversation_id) ==
  /\ web[p].op = "idle"
  /\ Requests < MaxRequests
  /\ nRetrieves < MaxRetrieves
  /\ nRetrieves' = nRetrieves + 1
  /\ LET qs == get_workflow_queues(registry, conversation_id)
     IN IF qs.type = "None"
        THEN /\ resp' = [resp EXCEPT ![p] = Response("history", conversation_id, "404", <<>>)]
             /\ UNCHANGED <<web, inq, inPuts>>
        ELSE /\ inq' = Put(inq, qs.input, RETRIEVE)
             /\ inPuts' = Put(inPuts, qs.input, RETRIEVE)
             /\ web' = [web EXCEPT ![p] = [Idle EXCEPT !.op = "history", !.pc = "hwait",
                                             !.id = conversation_id, !.qs = qs]]
             /\ UNCHANGED resp
  /\ UNCHANGED <<regVars, outq, outPuts, workerVars, gens, dbVars, toolVars, nResets, nDeletes, nEdits>>

\* retrieve_conversation_history lines 917-932: response = qs['output'].get(); a
\* HISTORY message is parsed and returned, ANSWERED returns an empty history,
\* anything else is dropped
RetrieveHistoryGet(p) ==
  /\ web[p].op = "history" /\ web[p].pc = "hwait"
  /\ outq[web[p].qs.output] # <<>>
  /\ LET response == Head(outq[web[p].qs.output])
     IN /\ outq' = [outq EXCEPT ![web[p].qs.output] = Tail(@)]
        /\ IF StartsWith(response, HISTORY_PREFIX)
           THEN /\ resp' = [resp EXCEPT ![p] = Response("history", web[p].id, "ok",
                                                         JsonLoadsHistory(Tail(response)))]
                /\ web' = [web EXCEPT ![p] = Idle]
           ELSE IF response = ANSWERED
           THEN /\ resp' = [resp EXCEPT ![p] = Response("history", web[p].id, "ok", <<>>)]
                /\ web' = [web EXCEPT ![p] = Idle]
           ELSE UNCHANGED <<web, resp>>
  /\ UNCHANGED <<regVars, inq, inPuts, outPuts, workerVars, gens, dbVars, toolVars, countVars>>

\* --------------------------------------------------------------- behaviours
Next ==
  \/ \E p \in WebWorkers :
       \/ \E id \in WorkflowIds : Activate(p, id, "workflow")
       \/ \E id \in AgentIds : Activate(p, id, "agent")
       \/ ActivateInput(p)
       \/ ActivateOutput(p)
       \/ ActivateIndex(p)
       \/ \E loaded \in BOOLEAN : ActivateStart(p, loaded)
       \/ ActivateReturn(p)
       \/ \E s \in known : Reset(p, s)
       \/ \E a \in AgentIds : DeleteAgent(p, a)
       \/ ClearStep(p)
       \/ DeleteAgentRows(p)
       \/ \E w \in WorkflowIds : UpdateWorkflow(p, w)
       \/ \E s \in known : \E m \in ClientMessages : SendMessage(p, s, m)
       \/ \E s \in known : RetrieveHistory(p, s)
       \/ RetrieveHistoryGet(p)
  \/ \E g \in GenIds : GeneratorPut(g) \/ GeneratorGet(g) \/ GeneratorRequeue(g)
  \/ \E s \in SessionIds :
       \/ \E env \in WorkerEnvs : WorkerInit(s, env)
       \/ WorkerReceive(s)
       \/ WorkerFragment(s)
       \/ WorkerAnswer(s)
       \/ WorkerRaise(s)

Spec == Init /\ [][Next]_vars

\* ------------------------------------------------- sessions of drawn graphs
\* the graphs a user can draw from the agent and tool rows: any of the agents,
\* any of the tools as tool nodes, with or without input and output nodes, with
\* no edge or with an edge from each node to the next
AgentNodePool ==
  <<AgentNode("g1", AgentSolo), AgentNode("g2", AgentA), AgentNode("g3", AgentB),
    AgentNode("g6", AgentFetcher)>>

ToolNodePool == <<ToolNode("g4", ToolThink), ToolNode("g5", ToolUnknown)>>

GraphNodes(agent_nodes, tool_nodes, io) ==
  (IF io THEN <<PlainNode("g0", "input")>> ELSE <<>>)
    \o FilterSeq(AgentNodePool, agent_nodes) \o FilterSeq(ToolNodePool, tool_nodes)
    \o (IF io THEN <<PlainNode("g9", "output")>> ELSE <<>>)

ChainEdges(nodes) ==
  IF Len(nodes) < 2 THEN <<>>
  ELSE [i \in 1..(Len(nodes) - 1) |-> Edge(nodes[i].id, nodes[i + 1].id)]

GraphContext(agent_nodes, tool_nodes, io, chained) ==
  LET nodes == GraphNodes(agent_nodes, tool_nodes, io)
  IN [id |-> 101, name |-> <<"Drawn">>, description |-> <<"a drawn graph">>,
      model_id |-> "", nodes |-> nodes,
      edges |-> IF chained THEN ChainEdges(nodes) ELSE <<>>, last_edited |-> 1]

GraphContexts ==
  {GraphContext(A, T, io, chained) :
     A \in SUBSET Range(AgentNodePool), T \in SUBSET Range(ToolNodePool),
     io \in BOOLEAN, chained \in BOOLEAN}

\* an activation of workflow 101 by web process 1 that has registered session 1,
\* loaded the graph the database holds and started the worker
InitGraph ==
  /\ registry = <<[k |-> 1, v |-> DictProxy(1, 1)], [k |-> 101, v |-> StrValue(1)]>>
  /\ nextSid = 2 /\ known = {}
  /\ inq = [s \in SessionIds |-> <<>>] /\ outq = [s \in SessionIds |-> <<>>]
  /\ inPuts = [s \in SessionIds |-> <<>>] /\ outPuts = [s \in SessionIds |-> <<>>]
  /\ wpc = [s \in SessionIds |-> IF s = 1 THEN "init" ELSE "none"]
  /\ \E c \in GraphContexts : ctx = [s \in SessionIds |-> IF s = 1 THEN c ELSE NoContext]
  /\ hist = [s \in SessionIds |-> <<>>]
  /\ orch = [s \in SessionIds |-> NoAgent]
  /\ cur = [s \in SessionIds |-> <<>>]
  /\ frags = [s \in SessionIds |-> 0]
  /\ web = [p \in WebWorkers |->
              IF p = 1 THEN [Idle EXCEPT !.op = "activate", !.pc = "wait", !.id = 101,
                                         !.type = "workflow", !.sid = 1,
                                         !.qs = DictProxy(1, 1)]
              ELSE Idle]
  /\ resp = [p \in WebWorkers |-> Response("", 0, "", <<>>)]
  /\ gens = [g \in GenIds |-> FreeGen]
  /\ lastEdited = [w \in WorkflowIds |-> 1]
  /\ dbAgents = {201, 202, 203, 204}
  /\ edit_timestamps = [p \in WebWorkers |-> {}]
  /\ nRetrieves = 0 /\ nResets = 0 /\ nDeletes = 0 /\ nEdits = 0
  /\ conf = NoConf /\ made = NoTool

NextGraph ==
  \/ \E env \in WorkerEnvs : WorkerInit(1, env)
  \/ ActivateReturn(1)

SpecGraph == InitGraph /\ [][NextGraph]_vars

\* ------------------------------------------------ a tool config being read
\* _create_tool_instance_from_data reads a tool's config with parse_config and,
\* for an external-process tool, hands the result to locate_config
InitConfig ==
  /\ registry = <<>> /\ nextSid = 1 /\ known = {}
  /\ inq = [s \in SessionIds |-> <<>>] /\ outq = [s \in SessionIds |-> <<>>]
  /\ inPuts = [s \in SessionIds |-> <<>>] /\ outPuts = [s \in SessionIds |-> <<>>]
  /\ wpc = [s \in SessionIds |-> "none"]
  /\ ctx = [s \in SessionIds |-> NoContext]
  /\ hist = [s \in SessionIds |-> <<>>]
  /\ orch = [s \in SessionIds |-> NoAgent]
  /\ cur = [s \in SessionIds |-> <<>>]
  /\ frags = [s \in SessionIds |-> 0]
  /\ web = [p \in WebWorkers |-> Idle]
  /\ resp = [p \in WebWorkers |-> Response("", 0, "", <<>>)]
  /\ gens = [g \in GenIds |-> FreeGen]
  /\ lastEdited = [w \in WorkflowIds |-> 1]
  /\ dbAgents = {201, 202, 203, 204}
  /\ edit_timestamps = [p \in WebWorkers |-> {}]
  /\ nRetrieves = 0 /\ nResets = 0 /\ nDeletes = 0 /\ nEdits = 0
  /\ \E config_str \in ConfigStrings : conf = Conf("raw", config_str)
  /\ made = NoTool

\* config = parse_config(tool_data.get('config'))
ParseConfig ==
  /\ conf.pc = "raw"
  /\ conf' = [conf EXCEPT !.pc = "parsed", !.attempts = ParseAttempts(conf.config_str),
                            !.config = parse_config(conf.config_str)]
  /\ UNCHANGED <<sessionVars, made>>

\* command, args, env, _ = locate_config(config)
LocateConfig ==
  /\ conf.pc = "parsed"
  /\ conf' = [conf EXCEPT !.pc = "located", !.located = locate_config(conf.config)]
  /\ UNCHANGED <<sessionVars, made>>

NextConfig == ParseConfig \/ LocateConfig

SpecConfig == InitConfig /\ [][NextConfig]_vars

\* --------------------------------------------- a tool row being instantiated
\* the Tool rows: the ones the agents use, and an external-process tool for each
\* known config
ToolRows ==
  {ToolCalculator, ToolThink, ToolUnknown, ToolUseLlm, ToolNested, ToolBadKind, ToolNoAgent}
    \cup {McpToolRow(320, <<"srv">>, c) : c \in KnownConfigs \cup {<<>>}}

\* str(result) of an agent run on a text
AgentResult(agent, message) == <<"result of ", agent, ": ">> \o message

\* calling a capability made from an agent: the wrapper of a graph agent runs the
\* agent it captured, agent_tool_function returns its placeholder
Invoke(capability, message) ==
  IF capability.kind = "agent_wrapper"
  THEN Call(capability, message, AgentResult(capability.captured, message),
            <<capability.captured>>)
  ELSE Call(capability, message,
            <<"Agent tool ">> \o capability.name \o <<" called with: ">> \o message, <<>>)

InitTool ==
  /\ registry = <<>> /\ nextSid = 1 /\ known = {}
  /\ inq = [s \in SessionIds |-> <<>>] /\ outq = [s \in SessionIds |-> <<>>]
  /\ inPuts = [s \in SessionIds |-> <<>>] /\ outPuts = [s \in SessionIds |-> <<>>]
  /\ wpc = [s \in SessionIds |-> "none"]
  /\ ctx = [s \in SessionIds |-> NoContext]
  /\ hist = [s \in SessionIds |-> <<>>]
  /\ orch = [s \in SessionIds |-> NoAgent]
  /\ cur = [s \in SessionIds |-> <<>>]
  /\ frags = [s \in SessionIds |-> 0]
  /\ web = [p \in WebWorkers |-> Idle]
  /\ resp = [p \in WebWorkers |-> Response("", 0, "", <<>>)]
  /\ gens = [g \in GenIds |-> FreeGen]
  /\ lastEdited = [w \in WorkflowIds |-> 1]
  /\ dbAgents = {201, 202, 203, 204}
  /\ edit_timestamps = [p \in WebWorkers |-> {}]
  /\ nRetrieves = 0 /\ nResets = 0 /\ nDeletes = 0 /\ nEdits = 0
  /\ conf = NoConf
  /\ \E tool_data \in ToolRows, env \in WorkerEnvs : made = Made("data", tool_data, env)

\* tool_instance = cls._create_tool_instance_from_data(tool_data, log_queue)
MakeTool ==
  /\ made.pc = "data"
  /\ made' = [made EXCEPT !.pc = "made",
                          !.result = create_tool_instance_from_data(made.tool_data, made.env)]
  /\ UNCHANGED <<sessionVars, conf>>

\* the agent that holds the capability calls it with a text
CallAgentTool ==
  /\ made.pc = "made" /\ made.tool_data.tool_type = "agent"
  /\ \E i \in 1..Len(made.result.list), message \in ClientMessages :
       made' = [made EXCEPT !.pc = "called", !.call = Invoke(made.result.list[i], message)]
  /\ UNCHANGED <<sessionVars, conf>>

NextTool == MakeTool \/ CallAgentTool

SpecTool == InitTool /\ [][NextTool]_vars

\* ------------------------------------------------------------------ properties
\* the messages the worker of session s has dequeued so far
Dequeued(s) == SubSeq(inPuts[s], 1, Len(inPuts[s]) - Len(inq[s]))

Ordinary(messages) == FilterSeq(messages, Range(messages) \ {TERMINATE, RETRIEVE})

HistoryMessages(messages) ==
  FilterSeq(messages, {m \in Range(messages) : StartsWith(m, HISTORY_PREFIX)})

UserContents(h) ==
  LET entries == FilterSeq(h, {e \in Range(h) : e.role = "user"})
  IN [i \in 1..Len(entries) |-> entries[i].content]

\* what the worker has put since the last STARTED or ANSWERED, HISTORY messages aside
RECURSIVE TurnOutput(_)
TurnOutput(puts) ==
  IF puts = <<>> \/ puts[Len(puts)] \in {STARTED, ANSWERED} THEN <<>>
  ELSE LET before == TurnOutput(SubSeq(puts, 1, Len(puts) - 1))
       IN IF StartsWith(puts[Len(puts)], HISTORY_PREFIX) THEN before
          ELSE Append(before, puts[Len(puts)])

\* C1: every ordinary message the worker has dequeued is answered by its data
\* fragments in generation order and then one ANSWERED: outside a turn there are as
\* many ANSWERED as ordinary messages dequeued and nothing after the last one, inside
\* a turn one fewer and the fragments streamed so far; the worker is at its receive
\* point (or ended by TERMINATE) whenever it is not inside a turn.
C1_EveryTurnAnswered ==
  \A s \in SessionIds :
    LET turns == Len(Ordinary(Dequeued(s)))
        answered == CountOf(outPuts[s], ANSWERED)
    IN IF wpc[s] = "proc"
       THEN /\ answered = turns - 1
            /\ TurnOutput(outPuts[s]) = [k \in 1..frags[s] |-> DataFragment(k)]
       ELSE /\ answered = turns
            /\ TurnOutput(outPuts[s]) = <<>>
            /\ turns > 0 => wpc[s] \in {"recv", "terminated"}

\* C2: when a termination request for a session id that was registered completes,
\* TERMINATE has been put on that session's input channel and the id is no longer
\* in the registry; a termination request for an id that was not registered any
\* more puts nothing, leaves the registry unchanged and completes without error.
C2_TerminationRemovesSession ==
  [][\A p \in WebWorkers :
       LET h == IF web[p].op = "reset" THEN web[p] ELSE web'[p]
       IN (h.op = "reset" /\ web'[p] # web[p]) =>
            /\ (web'[p].op = "idle" /\ ~h.absent) =>
                 /\ TERMINATE \in Range(inPuts'[h.id])
                 /\ ~RegHas(registry', h.id)
                 /\ resp'[p].status = "ok"
            /\ h.absent =>
                 /\ inPuts' = inPuts /\ registry' = registry
                 /\ web'[p].op = "idle" => resp'[p].status = "ok"]_vars

\* C3: a session id is returned to a client only after its worker put STARTED;
\* STARTED is put at most once per session and is the first message ever put on the
\* output channel; the output channel is empty at the step activation returns.
C3_StartedHandshake ==
  /\ [](\A s \in SessionIds :
          /\ s \in known => CountOf(outPuts[s], STARTED) = 1
          /\ CountOf(outPuts[s], STARTED) <= 1
          /\ outPuts[s] # <<>> => Head(outPuts[s]) = STARTED)
  /\ [][\A s \in SessionIds :
          (s \in known' /\ s \notin known) => (outq'[s] = <<>> /\ outPuts[s] = <<STARTED>>)]_vars

C3_Witness ==
  \E s \in known : \E p \in WebWorkers :
    /\ resp[p] = Response("activate", s, "ok", <<>>)
    /\ outPuts[s] = <<STARTED>> /\ outq[s] = <<>> /\ wpc[s] = "recv"

\* the step is one of an actor bound to session a: a streaming generator or a
\* history request addressed to a, or the worker of a
ActsOn(a) ==
  \/ \E g \in GenIds :
       gens[g].cid = a /\ gens[g].pc \in {"put", "get", "requeue"} /\ gens'[g] # gens[g]
  \/ \E p \in WebWorkers :
       /\ web'[p] # web[p]
       /\ \/ web[p].op = "history" /\ web[p].id = a
          \/ web'[p].op = "history" /\ web'[p].id = a
  \/ /\ web' = web /\ gens' = gens
     /\ <<wpc[a], hist[a], cur[a], frags[a], inq[a], outq[a]>>
          # <<wpc'[a], hist'[a], cur'[a], frags'[a], inq'[a], outq'[a]>>

SessionUnchanged(b) ==
  /\ inq'[b] = inq[b] /\ outq'[b] = outq[b]
  /\ inPuts'[b] = inPuts[b] /\ outPuts'[b] = outPuts[b]
  /\ hist'[b] = hist[b] /\ wpc'[b] = wpc[b]

\* C4: the ordinary messages on a session's input channel are those submitted for
\* that session, the user entries of its history are the ordinary messages its own
\* worker dequeued, and a step of an actor bound to session a leaves the channels,
\* the history and the worker of every other session unchanged.
C4_SessionIsolation ==
  /\ [](\A s \in SessionIds :
          /\ UserContents(hist[s]) = Ordinary(Dequeued(s))
          /\ \A m \in Range(Ordinary(inPuts[s])) :
               CountOf(inPuts[s], m) =
                 Cardinality({g \in GenIds : /\ gens[g].cid = s /\ gens[g].message = m
                                             /\ gens[g].pc \in {"get", "requeue", "done"}}))
  /\ [][\A a \in SessionIds : ActsOn(a) =>
          \A b \in SessionIds \ {a} : SessionUnchanged(b)]_vars

C4_Witness ==
  /\ known = {1, 2} /\ ctx[1].id = ctx[2].id
  /\ \E g \in GenIds : gens[g].cid = 1 /\ gens[g].pc = "done" /\ gens[g].received # <<>>
  /\ Len(hist[1]) = 2 /\ hist[2] = <<>> /\ inPuts[2] = <<>> /\ outPuts[2] = <<STARTED>>

\* C5: an ordinary message sent to a session whose graph was edited after the
\* session loaded it is answered with the "graph was edited" error: it is never put
\* on the session's input channel.
C5_StaleGraphRejected ==
  \A g \in GenIds :
    (gens[g].stale /\ gens[g].message \notin {TERMINATE, RETRIEVE}) =>
      gens[g].pc \notin {"get", "requeue", "done"}

\* C6: when the termination made with an agent id completes, every session
\* activated from that id has had TERMINATE put on its input channel and is no
\* longer registered, and neither is the id's own entry.
C6_TerminationByGraphId ==
  [][\A p \in WebWorkers :
       (web[p].op = "delete_agent" /\ web[p].pc # "dbdel" /\ web'[p].op = "delete_agent"
          /\ web'[p].pc = "dbdel") =>
         /\ ~RegHas(registry', web[p].id)
         /\ \A s \in SessionIds :
              (ctx[s].id = web[p].id /\ wpc[s] \in {"recv", "proc"}) =>
                (TERMINATE \in Range(inPuts'[s]) /\ ~RegHas(registry', s))]_vars

NoOrdinarySent(s) == Ordinary(inPuts[s]) = <<>>

\* C7: while no ordinary message has been sent to a session, each RETRIEVE its
\* worker dequeued produced exactly one HISTORY message, whose payload is the empty
\* list, and a history request that returns returns the empty list.
C7_EmptyHistoryFirst ==
  /\ [](\A s \in SessionIds : NoOrdinarySent(s) =>
          /\ Len(HistoryMessages(outPuts[s])) = CountOf(Dequeued(s), RETRIEVE)
          /\ \A m \in Range(HistoryMessages(outPuts[s])) : m = <<HISTORY_PREFIX, "[", "]">>)
  /\ [][\A p \in WebWorkers :
          (web[p].op = "history" /\ web'[p].op = "idle" /\ NoOrdinarySent(web[p].id)) =>
            resp'[p] = Response("history", web[p].id, "ok", <<>>)]_vars

C7_Witness ==
  \E p \in WebWorkers :
    /\ resp[p].op = "history" /\ resp[p].status = "ok" /\ resp[p].history = <<>>
    /\ web[p].op = "idle"
    /\ outPuts[resp[p].id] = <<STARTED, <<HISTORY_PREFIX, "[", "]">>>>
    /\ inPuts[resp[p].id] = <<RETRIEVE>>

AgentNodes(workflow_context) ==
  FilterSeq(workflow_context.nodes,
            {n \in Range(workflow_context.nodes) : n.type = "agent"})

\* the special case as the specification words it: one agent node and no edges
SingleAgentNoEdges(workflow_context) ==
  Len(AgentNodes(workflow_context)) = 1 /\ workflow_context.edges = <<>>

Wrappers(caps) == FilterSeq(caps, {c \in Range(caps) : c.kind = "agent_wrapper"})

NotWrappers(caps) == FilterSeq(caps, {c \in Range(caps) : c.kind # "agent_wrapper"})

\* C8: for a graph that is not the single-agent/no-edges case, the orchestrator of
\* a started session has one wrapped-agent capability per agent node, then the
\* capabilities instantiated from the graph's tool nodes, and no stub.
C8_OrchestratorCapabilities ==
  \A s \in SessionIds :
    (~orch[s].none /\ ~SingleAgentNoEdges(ctx[s])) =>
      LET agent_nodes == AgentNodes(ctx[s])
      IN /\ [i \in 1..Len(Wrappers(orch[s].tools)) |-> Wrappers(orch[s].tools)[i].captured]
              = [i \in 1..Len(agent_nodes) |-> agent_nodes[i].id]
         /\ NotWrappers(orch[s].tools) = Flatten(NodeTools(ctx[s].nodes, Env({}, FALSE)))
         /\ \A c \in Range(orch[s].tools) : c.kind # "stub"

\* C9: for a graph with one agent node and no edges the orchestrator of a started
\* session is that agent: the object created for the node, its prompt the agent's
\* own text, its capabilities the agent's own tools, none of them a wrapped agent,
\* and no prompt synthesized.
C9_BareAgentIsTheAgent ==
  \A s \in SessionIds :
    (~orch[s].none /\ SingleAgentNoEdges(ctx[s])) =>
      LET node == AgentNodes(ctx[s])[1]
      IN /\ orch[s].oid = node.id
         /\ orch[s].system_prompt = node.reference.prompt
         /\ \E env \in WorkerEnvs : orch[s].tools = AgentToolsFrom(node.reference.tools, env)
         /\ Wrappers(orch[s].tools) = <<>>
         /\ orch[s].system_prompt # generate_workflow_prompt(ctx[s])

C9_Witness ==
  \E s \in SessionIds :
    /\ wpc[s] = "recv" /\ ~orch[s].none /\ SingleAgentNoEdges(ctx[s])
    /\ orch[s].tools # <<>> /\ Len(ctx[s].nodes) > 1

\* C10: the orchestrator of a started session is the bare agent exactly when the
\* graph has one agent node and no edges; for every other graph it is the
\* synthesized orchestrator.
C10_BareAgentExactlyWhenSpecialCase ==
  \A s \in SessionIds :
    ~orch[s].none => ((orch[s].oid # "orchestrator") <=> SingleAgentNoEdges(ctx[s]))

\* text contains sub as a contiguous run
Contains(text, sub) ==
  \E i \in 0..(Len(text) - Len(sub)) : SubSeq(text, i + 1, i + Len(sub)) = sub

Synthesized(o) == ~o.none /\ o.oid = "orchestrator"

\* how a directive names the node at one end of an edge
EndPhrase(workflow_context, id, end) ==
  LET matching == FilterSeq(workflow_context.nodes,
                            {n \in Range(workflow_context.nodes) : n.id = id})
  IN IF matching = <<>> THEN <<"Node ", id>>
     ELSE IF end = "source" /\ matching[1].type = "input" THEN <<"the initial input">>
     ELSE IF end = "target" /\ matching[1].type = "output"
          THEN <<"the user as final response">>
     ELSE IF matching[1].has_reference THEN matching[1].reference.name
     ELSE <<"Node ", id>>

NodeListed(prompt, node) ==
  Contains(prompt, <<"- ">> \o (IF node.has_reference THEN node.reference.name
                                 ELSE <<"Node ", node.id>>)
                     \o <<" (ID: ", node.id, ", Type: ", node.type, ")\n">>)

DirectiveAsWritten(workflow_context, edge) ==
  <<"- You can from ">> \o EndPhrase(workflow_context, edge.source, "source")
    \o <<" send the result to the ">> \o EndPhrase(workflow_context, edge.target, "target")
    \o <<"\n">>

DirectiveMaySend(workflow_context, edge) ==
  <<"you may send the result from ">> \o EndPhrase(workflow_context, edge.source, "source")
    \o <<" to ">> \o EndPhrase(workflow_context, edge.target, "target")

C13_AlwaysMapping == conf.pc \in {"parsed", "located"} => IsDict(conf.config)

\* the value of the strategy parse_config attempted last
LastAttemptValue(config_str, attempts) ==
  CASE attempts = <<>> -> EmptyDict
    [] attempts = <<"strict">> -> json_loads(config_str).v
    [] attempts = <<"strict", "repair">> -> json_loads(FixedJson(config_str)).v
    [] attempts = <<"strict", "repair", "quoted">> -> PyDict(ExtractQuoted(config_str))
    [] OTHER -> PyDict(ExtractLoose(config_str))

\* C14: for a strictly valid config string parse_config returns the value of
\* the strict parse and attempts nothing else; the repair is attempted only after
\* the strict parse failed, the quoted-key extraction only after the repaired text
\* failed to parse, the loose extraction only after the quoted-key extraction
\* found no pair; the result is that of the last strategy attempted.
C14_StrictRoundTrip ==
  conf.pc \in {"parsed", "located"} =>
    LET strict == json_loads(conf.config_str)
        all == <<"strict", "repair", "quoted", "loose">>
        tried(name) == name \in Range(conf.attempts)
    IN /\ strict.ok => conf.config = strict.v /\ conf.attempts = <<"strict">>
       /\ conf.attempts = SubSeq(all, 1, Len(conf.attempts))
       /\ tried("repair") => ~strict.ok
       /\ tried("quoted") => ~json_loads(FixedJson(conf.config_str)).ok
       /\ tried("loose") => ExtractQuoted(conf.config_str) = <<>>
       /\ conf.config = LastAttemptValue(conf.config_str, conf.attempts)

C14_Witness ==
  /\ conf.pc = "parsed" /\ conf.config_str = ConfigQuotedBrace
  /\ conf.config = PyDict(<<[k |-> <<"a">>, v |-> PyStr(<<",", "}">>)]>>)

RECURSIVE FirstCommandMapping(_)
RECURSIVE FirstCommandBelow(_, _)

\* the first mapping among the values of items, from item i, that holds or
\* contains a mapping with a command key
FirstCommandBelow(items, i) ==
  IF i > Len(items) THEN PyNone
  ELSE IF FirstCommandMapping(items[i].v) # PyNone THEN FirstCommandMapping(items[i].v)
  ELSE FirstCommandBelow(items, i + 1)

\* the first mapping, depth first in key order, that has a command key
FirstCommandMapping(v) ==
  IF ~IsDict(v) THEN PyNone
  ELSE IF DictHas(v.items, <<"command">>) THEN v
  ELSE FirstCommandBelow(v.items, 1)

\* C15 (as stated): locate_config returns the command, args, env and disabled
\* names of the first mapping at any depth that has a command key, absent ones
\* empty, and four None exactly when there is no such mapping or the input is not
\* a mapping.
C15_FirstCommandAtAnyDepth ==
  conf.pc = "located" =>
    LET found == FirstCommandMapping(conf.config)
    IN IF found = PyNone THEN conf.located = NotLocated
       ELSE conf.located =
              Located(DictGet(found.items, <<"command">>),
                      DictGetDefault(found.items, <<"args">>, PyList(<<>>)),
                      DictGetDefault(found.items, <<"env">>, EmptyDict),
                      DictGetDefault(found.items, <<"disabled_tools">>, PyList(<<>>)))

\* the failures of instantiation: an unknown builtin name, an external-process
\* config in which no command is found, a client that fails to start, an unknown
\* kind (a nested-agent record without an agent id is handled as one)
ToolFailure(tool_data, env) ==
  \/ /\ tool_data.tool_type = "builtin"
     /\ \A key \in BuiltinRegistry : Lower(tool_data.name) # <<key>>
  \/ /\ tool_data.tool_type = "mcp"
     /\ \/ ~PyTruthy(locate_config(parse_config(tool_data.config)).command)
        \/ env.mcp_fails
  \/ tool_data.tool_type \notin {"builtin", "mcp", "agent"}
  \/ tool_data.tool_type = "agent" /\ tool_data.agent_id = 0

BareAgent(o) == ~o.none /\ o.oid # "orchestrator"

\* C12: an agent is constructed with exactly the capabilities of its tool
\* associations whose instantiation does not fail, in association order; the
\* failing ones are skipped and the worker goes on to serve the session.
C12_FailedToolsSkipped ==
  \A s \in SessionIds :
    BareAgent(orch[s]) =>
      /\ wpc[s] = "recv"
      /\ \E n \in Range(ctx[s].nodes) : \E env \in WorkerEnvs :
           /\ n.id = orch[s].oid /\ n.type = "agent"
           /\ orch[s].tools =
                Flatten([i \in 1..Len(n.reference.tools) |->
                           IF ToolFailure(n.reference.tools[i], env) THEN <<>>
                           ELSE create_tool_instance_from_data(n.reference.tools[i], env).list])

C12_Witness ==
  \E s \in SessionIds :
    /\ BareAgent(orch[s]) /\ orch[s].oid = "g6" /\ wpc[s] = "recv"
    /\ orch[s].tools =
         <<Capability("mcp", <<"search">>), Capability("mcp", <<"fetch">>),
           Capability("mcp", <<"crawl">>), Capability("builtin", <<"calculator">>),
           Capability("mcp", <<"fetch">>), Capability("builtin", <<"think_tool">>)>>

\* C16 (as stated): when the client of an external-process tool starts, the
\* factory returns the capabilities it reports whose name is not among the
\* disabled names the lookup returned with the command, in the order reported.
C16_DisabledNamesOfLookup ==
  (made.pc = "made" /\ made.tool_data.tool_type = "mcp") =>
    LET located == locate_config(parse_config(made.tool_data.config))
        reported == list_tools_sync(located.command)
        enabled == {n \in Range(reported) : NotDisabled(n, located.disabled_tools)}
    IN (PyTruthy(located.command) /\ ~made.env.mcp_fails) =>
         made.result = ListResult(McpCapabilities(FilterSeq(reported, enabled)))

\* C17 (as stated): a capability made from an agent is named by the display
\* name with every character outside [A-Za-z0-9_-] replaced by an underscore.
C17_SanitizedAgentCapabilityNames ==
  made.pc \in {"made", "called"} =>
    \A c \in Range(made.result.list) :
      c.kind \in {"agent_wrapper", "agent_tool_function"} =>
        /\ c.name = Sanitize(made.tool_data.name)
        /\ Range(c.name) \subseteq NameChars

\* C18 (as stated): calling a nested-agent capability with a text runs the
\* referenced agent on the text and returns that agent's result.
C18_NestedAgentRuns ==
  made.pc = "called" =>
    /\ made.call.ran = <<made.tool_data.agent_id>>
    /\ made.call.returned = AgentResult(made.tool_data.agent_id, made.call.message)

\* C19 (as stated): a history retrieval that returns, returns the history the
\* worker serialized in answer to a RETRIEVE: the content of a HISTORY message
\* the worker has put on the session's output queue.
C19_HistoryAsRetrieved ==
  [][\A p \in WebWorkers :
       (web[p].op = "history" /\ web'[p].op = "idle") =>
         \E i \in 1..Len(outPuts[web[p].qs.output]) :
           /\ StartsWith(outPuts[web[p].qs.output][i], HISTORY_PREFIX)
           /\ resp'[p].history = JsonLoadsHistory(Tail(outPuts[web[p].qs.output][i]))]_vars

IsHistory(m) == StartsWith(m, HISTORY_PREFIX)

\* the HISTORY messages of session s that are on its output queue or held by a
\* generator that is about to put them back
HistoryInFlight(q, gs, s) ==
  Cardinality({i \in 1..Len(q[s]) : IsHistory(q[s][i])})
  + Cardinality({g \in GenIds : gs[g].pc = "requeue" /\ gs[g].qs.output = s})

\* C20: a generator that dequeues a HISTORY message keeps it out of what it
\* yields and holds it; its next step puts that message, unchanged, at the back of
\* the same queue, and only then does it receive again; the number of HISTORY
\* messages on the queue or so held grows only when the worker puts one and falls
\* only when a history retrieval takes one.
C20_HistoryRequeued ==
  /\ [](\A g \in GenIds :
          /\ \A m \in Range(gens[g].received) : ~IsHistory(m)
          /\ gens[g].pc = "requeue" => IsHistory(gens[g].held))
  /\ [][/\ \A g \in GenIds :
             /\ (gens[g].pc = "get" /\ gens'[g] # gens[g]
                 /\ IsHistory(Head(outq[gens[g].qs.output]))) =>
                  /\ gens'[g].pc = "requeue"
                  /\ gens'[g].held = Head(outq[gens[g].qs.output])
                  /\ gens'[g].received = gens[g].received
             /\ (gens[g].pc = "requeue" /\ gens'[g] # gens[g]) =>
                  /\ gens'[g].pc = "get"
                  /\ outq'[gens[g].qs.output] = Append(outq[gens[g].qs.output], gens[g].held)
       /\ \A s \in SessionIds :
            LET before == HistoryInFlight(outq, gens, s)
                after == HistoryInFlight(outq', gens', s)
            IN \/ after = before
               \/ after = before + 1 /\ Len(outPuts'[s]) = Len(outPuts[s]) + 1
                    /\ IsHistory(outPuts'[s][Len(outPuts'[s])])
               \/ /\ after = before - 1
                  /\ \E p \in WebWorkers :
                       /\ web[p].op = "history" /\ web'[p].op = "idle"
                       /\ web[p].qs.output = s]_vars

\* a HISTORY message that a generator has put back behind a fragment the worker
\* put after it
C20_Witness ==
  \E s \in SessionIds :
    /\ Len(outPuts[s]) >= 3 /\ IsHistory(outPuts[s][2]) /\ ~IsHistory(outPuts[s][3])
    /\ outq[s] = <<outPuts[s][3], outPuts[s][2]>>

\* ------------------------------------------------------------------ turns
RECURSIVE TurnPairs(_)
\* the (user, assistant) entries of completed turns on these messages, in order
TurnPairs(messages) ==
  IF messages = <<>> THEN <<>>
  ELSE <<UserEntry(Head(messages)), AssistantEntry(AnswerText(Head(messages)))>>
         \o TurnPairs(Tail(messages))

\* the worker has begun a turn and not completed it (it is in the orchestrator
\* call, or the call raised)
InTurn(s) == wpc[s] = "proc" \/ (wpc[s] = "crashed" /\ cur[s] # <<>>)

\* the worker of s takes a message off its input queue in this step
Dequeues(s) == wpc[s] = "recv" /\ inq[s] # <<>> /\ inq'[s] = Tail(inq[s])

\* C21: the history of a session is the (user, assistant) pairs of the ordinary
\* messages whose turn completed, in the order they were dequeued, followed by
\* the user entry of a turn in progress; it changes only by one entry appended,
\* the user entry when an ordinary message is dequeued (the orchestrator call
\* begins) and the assistant entry with the full answer when the call returns;
\* dequeuing RETRIEVE or TERMINATE leaves it unchanged and begins no call.
C21_HistoryOfTurns ==
  /\ [](\A s \in SessionIds :
         LET taken == Ordinary(Dequeued(s))
         IN IF InTurn(s)
            THEN /\ taken # <<>>
                 /\ hist[s] = TurnPairs(SubSeq(taken, 1, Len(taken) - 1))
                                \o <<UserEntry(taken[Len(taken)])>>
            ELSE hist[s] = TurnPairs(taken))
  /\ [][\A s \in SessionIds :
          /\ hist'[s] # hist[s] =>
                /\ Len(hist'[s]) = Len(hist[s]) + 1
                /\ SubSeq(hist'[s], 1, Len(hist[s])) = hist[s]
                /\ \/ /\ Dequeues(s) /\ Head(inq[s]) \notin {TERMINATE, RETRIEVE}
                      /\ wpc'[s] = "proc"
                      /\ hist'[s][Len(hist'[s])] = UserEntry(Head(inq[s]))
                   \/ /\ wpc[s] = "proc" /\ wpc'[s] = "recv"
                      /\ hist'[s][Len(hist'[s])] = AssistantEntry(AnswerText(cur[s]))
          /\ (Dequeues(s) /\ Head(inq[s]) \in {TERMINATE, RETRIEVE}) =>
                hist'[s] = hist[s] /\ wpc'[s] # "proc"]_vars

\* two turns on different messages have completed in one session
C21_Witness ==
  \E s \in SessionIds :
    /\ wpc[s] = "recv" /\ Len(hist[s]) = 4
    /\ hist[s][1].content # hist[s][3].content

\* ------------------------------------------------------------- cancellation
\* the worker's responses among the messages it put: ANSWERED and HISTORY
Responses(puts) == FilterSeq(puts, {m \in Range(puts) : m = ANSWERED \/ IsHistory(m)})

\* a message is appended to q, or q is as it was
Grows(q, after) == after = q \/ (after # <<>> /\ SubSeq(after, 1, Len(after) - 1) = q)

\* C22: a worker ends by TERMINATE only by dequeuing it at its receive point,
\* putting nothing on the output channel in that step; when it has ended so,
\* it has dequeued exactly the messages put before the first TERMINATE and
\* responded to each in order (ANSWERED to an ordinary message, HISTORY to a
\* RETRIEVE), everything put after that TERMINATE is still on the input channel,
\* and from then on it dequeues nothing, puts nothing and changes no history.
C22_TerminateAtReceivePoint ==
  /\ [](\A s \in SessionIds :
         wpc[s] = "terminated" =>
           LET k == IndexFrom(inPuts[s], TERMINATE, 1)
               responses == Responses(outPuts[s])
           IN /\ k > 0
              /\ Dequeued(s) = SubSeq(inPuts[s], 1, k)
              /\ inq[s] = SubSeq(inPuts[s], k + 1, Len(inPuts[s]))
              /\ Len(responses) = k - 1
              /\ \A i \in 1..(k - 1) :
                    IF inPuts[s][i] = RETRIEVE THEN IsHistory(responses[i])
                    ELSE responses[i] = ANSWERED
              /\ InTurn(s) = FALSE)
  /\ [][\A s \in SessionIds :
          /\ (wpc[s] # "terminated" /\ wpc'[s] = "terminated") =>
                /\ Dequeues(s) /\ Head(inq[s]) = TERMINATE
                /\ outPuts'[s] = outPuts[s] /\ outq'[s] = outq[s]
          /\ wpc[s] = "terminated" =>
                /\ wpc'[s] = "terminated"
                /\ Grows(inq[s], inq'[s])
                /\ outPuts'[s] = outPuts[s] /\ hist'[s] = hist[s]]_vars

\* a worker ended by TERMINATE after a completed turn
C22_Witness ==
  \E s \in SessionIds :
    /\ wpc[s] = "terminated"
    /\ Ordinary(Dequeued(s)) # <<>>
    /\ ANSWERED \in Range(outPuts[s])

\* ------------------------------------------------------ where a session is built
\* an activation of session s is still in its handler
Activating(s) == \E p \in WebWorkers : web[p].op = "activate" /\ web[p].sid = s

\* C23 (as stated): the graph of a session is loaded in its worker, after the
\* worker was started, and no activation ends leaving a registered channel pair
\* whose worker was never started.
C23_BuiltInsideTheWorker ==
  /\ [](\A s \in SessionIds :
         (RegHas(registry, s) /\ ~Activating(s)) => wpc[s] # "none")
  /\ [][\A s \in SessionIds : ctx'[s] # ctx[s] => wpc[s] = "init"]_vars

\* ------------------------------------------------------ failed initialisation
\* the worker of s ended in lines 199-221, before it had an orchestrator
InitFailed(s) == wpc[s] = "crashed" /\ orch[s].none

\* a handler of clear_all_workflow_sessions is at work
Terminating == \E p \in WebWorkers : web[p].op \in {"reset", "delete_agent"}

\* C24: a worker whose initialisation failed has put nothing on its output
\* channel and has read nothing from its input channel; the activation that
\* started it is still waiting and has returned no session id; the channel pair
\* it registered is in the registry, and only a termination request takes it out.
C24_FailedInitIsSilent ==
  /\ [](\A s \in SessionIds :
         InitFailed(s) =>
           /\ outPuts[s] = <<>> /\ outq[s] = <<>>
           /\ inq[s] = inPuts[s] /\ hist[s] = <<>>
           /\ s \notin known
           /\ \E p \in WebWorkers :
                 web[p].op = "activate" /\ web[p].sid = s /\ web[p].pc = "wait")
  /\ [][\A s \in SessionIds :
          /\ (wpc[s] = "init" /\ InitFailed(s)') =>
                /\ registry' = registry
                /\ RegHas(registry, s) => RegGet(registry, s) = DictProxy(s, s)
                /\ ~RegHas(registry, s) => Terminating
          /\ (InitFailed(s) /\ RegHas(registry, s)) =>
                \/ (RegHas(registry', s) /\ RegGet(registry', s) = RegGet(registry, s))
                \/ Terminating]_vars

\* a worker failed to initialise and its channel pair is registered
C24_Witness ==
  \E s \in SessionIds :
    InitFailed(s) /\ RegHas(registry, s) /\ RegGet(registry, s) = DictProxy(s, s)

\* ------------------------------------------------------------- a failed turn
\* the worker of s ended inside orchestrator(message)
TurnFailed(s) == wpc[s] = "crashed" /\ ~orch[s].none

\* generator g has put its message on the input channel of s
Streams(g, s) ==
  gens[g].pc \in {"get", "requeue", "done"} /\ gens[g].qs.input = s

\* g is the one caller whose message is the turn the worker of s is in
StreamsTurn(g, s) ==
  /\ Streams(g, s) /\ gens[g].message = cur[s]
  /\ \A f \in GenIds \ {g} : ~(Streams(f, s) /\ gens[f].message = cur[s])

\* the worker of a failed turn has emitted ANSWERED for the earlier turns only
FailedTurnUnanswered ==
  \A s \in SessionIds :
    TurnFailed(s) => CountOf(outPuts[s], ANSWERED) = Len(Ordinary(Dequeued(s))) - 1

\* it reads and emits nothing more, and only a termination request takes its
\* channel pair out of the registry
FailedTurnWorkerGone ==
  \A s \in SessionIds :
    /\ (wpc[s] = "proc" /\ TurnFailed(s)') => registry' = registry
    /\ TurnFailed(s) =>
          /\ TurnFailed(s)' /\ Grows(inq[s], inq'[s])
          /\ outPuts'[s] = outPuts[s] /\ hist'[s] = hist[s]
          /\ RegHas(registry, s) =>
                \/ (RegHas(registry', s) /\ RegGet(registry', s) = RegGet(registry, s))
                \/ Terminating

\* the caller streaming the failed turn has not seen the turn complete
FailedTurnCallerWaits ==
  \A s \in SessionIds : \A g \in GenIds :
    (TurnFailed(s) /\ StreamsTurn(g, s)) => gens[g].pc # "done"

\* C25 (as stated): when the orchestrator raises in a turn the worker ends with
\* no ANSWERED for that turn, reads nothing more from its input channel, its
\* channel pair stays registered, and the caller streaming that turn never
\* observes the turn complete.
C25_FailedTurnNeverCompletes ==
  /\ [](FailedTurnUnanswered /\ FailedTurnCallerWaits)
  /\ [][FailedTurnWorkerGone]_vars

\* ------------------------------------------------------- registry atomicity
\* every session id in the registry maps to a pair with both queues
CompletePairs ==
  \A s \in SessionIds :
    RegHas(registry, s) =>
      RegGet(registry, s).input # NoQueue /\ RegGet(registry, s).output # NoQueue

\* no termination request has ended in an error
TerminationsSucceed ==
  \A p \in WebWorkers :
    resp[p].op \in {"reset", "delete_agent"} => resp[p].status # "500"

\* a termination request for a registered session, when it completes, has put
\* TERMINATE on the session's input channel
TerminationsReachSession ==
  \A p \in WebWorkers :
    LET h == IF web[p].op = "reset" THEN web[p] ELSE web'[p]
    IN (h.op = "reset" /\ web'[p] # web[p] /\ web'[p].op = "idle" /\ ~h.absent) =>
         TERMINATE \in Range(inPuts'[h.id])

\* C26 (as stated): under every interleaving of activations and terminations a
\* session id in the registry maps to a complete channel pair, every termination
\* request completes without error, and the session it names receives TERMINATE.
C26_AtomicRegistry ==
  /\ [](CompletePairs /\ TerminationsSucceed)
  /\ [][TerminationsReachSession]_vars

\* ------------------------------------------------------ message text as data
\* the messages callers of the message endpoint have put on the input channel of
\* s are the ordinary messages on it
ChatMessagesAreOrdinary ==
  \A s \in SessionIds :
    Len(Ordinary(inPuts[s])) = Cardinality({g \in GenIds : Streams(g, s)})

\* what a caller of the message endpoint has put is neither control sentinel
ControlOnlyByControl ==
  \A s \in SessionIds : \A g \in GenIds :
    Streams(g, s) => gens[g].message \notin {TERMINATE, RETRIEVE}

\* a message that is empty once stripped is answered 400 and nothing is put
EmptyRejected ==
  \A p \in WebWorkers :
    (resp'[p] # resp[p] /\ resp'[p].op = "send_message") =>
      \/ resp'[p].status = "stream" /\ \E g \in GenIds : gens'[g].pc = "put" /\ gens[g].pc = "free"
                                                           /\ gens'[g].message # <<>>
      \/ resp'[p].status = "400" /\ gens' = gens /\ inPuts' = inPuts /\ inq' = inq

\* C27 (as stated): whatever its text, a non-empty message submitted through the
\* message endpoint reaches the worker as an ordinary message and never acts as
\* TERMINATE or RETRIEVE; an empty or whitespace-only message is rejected with
\* nothing put on the input channel.
C27_MessageTextIsNeverControl ==
  /\ [](ChatMessagesAreOrdinary /\ ControlOnlyByControl)
  /\ [][EmptyRejected]_vars

\* ------------------------------------------- a turn and a retrieval together
\* the data fragments among the messages the worker put
DataFragments(puts) == FilterSeq(puts, {m \in Range(puts) : StartsWith(m, "data: ")})

\* g is the only caller that has streamed on s
OnlyStreamer(g, s) == Streams(g, s) /\ \A f \in GenIds \ {g} : ~Streams(f, s)

\* a message is taken off the output channel of s by a history retrieval (not
\* by a generator, not by the activation waiting for STARTED)
HistoryDequeue(s) ==
  /\ outq[s] # <<>> /\ outq'[s] = Tail(outq[s])
  /\ gens' = gens
  /\ \A p \in WebWorkers : web[p].op = "activate" => web'[p] = web[p]

\* C28 (as stated): the one caller streaming on a session, when its stream has
\* ended, has received every fragment the worker emitted, in order; a history
\* retrieval takes nothing but HISTORY messages off the output channel.
C28_TurnAndRetrievalDoNotInterfere ==
  /\ [](\A s \in SessionIds : \A g \in GenIds :
         (OnlyStreamer(g, s) /\ gens[g].pc = "done") =>
           gens[g].received = DataFragments(outPuts[s]))
  /\ [][\A s \in SessionIds : HistoryDequeue(s) => IsHistory(Head(outq[s]))]_vars

\* ------------------------------------------- sessions with no agent at all
\* the agents create_nodes materializes for the session's graph in environment env
Materialized(s, env) == create_nodes(ctx[s], env).agents

\* the only failure of initialisation that is not one of an agent or a capability:
\* the synthesis of the orchestrator over two or more materialized agents raising
SynthesisRaised(s) ==
  \E env \in WorkerEnvs : env.orchestrator_fails /\ Len(Materialized(s, env)) > 1

\* C29 (as stated): whatever fails while agents and capabilities are instantiated,
\* the worker of every graph finishes initialisation: once its initialisation has
\* run it is at its receive point with an orchestrator and has emitted STARTED,
\* even when no agent was materialized; only the synthesis of the orchestrator
\* failing is left aside.
C29_InstantiationFailuresNeverFatal ==
  \A s \in SessionIds :
    (wpc[s] \notin {"none", "init"} /\ ~SynthesisRaised(s)) =>
      /\ wpc[s] # "crashed"
      /\ ~orch[s].none
      /\ STARTED \in Range(outPuts[s])

\* ------------------------------------------- a builtin offered by the editor
\* builtin_tools: the names of the builtin tool catalogue, in its order
builtin_tools ==
  <<"http_request", "calculator", "use_aws", "retrieve", "memory", "environment",
    "generate_image", "journal", "think", "current_time", "stop", "use_llm">>

\* the tool_name values a client posts: the offered names, offered names in
\* another case, a registry key the catalogue does not offer, an unknown name
AttachNames == Range(builtin_tools) \cup {"Calculator", "THINK", "Use_LLM", "shell", "no_such_tool"}

\* the agents a client names: one that exists and one that does not
AttachAgents == {201, 299}

InitAttach ==
  /\ registry = <<>> /\ nextSid = 1 /\ known = {}
  /\ inq = [s \in SessionIds |-> <<>>] /\ outq = [s \in SessionIds |-> <<>>]
  /\ inPuts = [s \in SessionIds |-> <<>>] /\ outPuts = [s \in SessionIds |-> <<>>]
  /\ wpc = [s \in SessionIds |-> "none"]
  /\ ctx = [s \in SessionIds |-> NoContext]
  /\ hist = [s \in SessionIds |-> <<>>]
  /\ orch = [s \in SessionIds |-> NoAgent]
  /\ cur = [s \in SessionIds |-> <<>>]
  /\ frags = [s \in SessionIds |-> 0]
  /\ web = [p \in WebWorkers |-> Idle]
  /\ resp = [p \in WebWorkers |-> Response("", 0, "", <<>>)]
  /\ gens = [g \in GenIds |-> FreeGen]
  /\ lastEdited = [w \in WorkflowIds |-> 1]
  /\ dbAgents = {201, 202, 203, 204}
  /\ edit_timestamps = [p \in WebWorkers |-> {}]
  /\ nRetrieves = 0 /\ nResets = 0 /\ nDeletes = 0 /\ nEdits = 0
  /\ conf = NoConf
  /\ \E tool_name \in AttachNames, env \in WorkerEnvs :
       made = Made("offered", ToolRow(0, <<tool_name>>, "", 0), env)

\* add_tool_to_agent with a tool_name and no tool_id: 404 for an unknown agent,
\* otherwise the builtin row of that name is found or created as posted and
\* associated with the agent
add_tool_to_agent(agent_id) ==
  /\ made.pc = "offered"
  /\ IF agent_id \notin dbAgents
     THEN made' = [made EXCEPT !.pc = "rejected"]
     ELSE made' = [made EXCEPT !.pc = "data",
                               !.tool_data = ToolRow(330, made.tool_data.name, "builtin", 0)]
  /\ UNCHANGED <<sessionVars, conf>>

NextAttach ==
  \/ \E agent_id \in AttachAgents : add_tool_to_agent(agent_id)
  \/ MakeTool

SpecAttach == InitAttach /\ [][NextAttach]_vars

\* the row was made by attaching a name the catalogue offers
OfferedAttached ==
  /\ made.pc = "made" /\ made.tool_data.tool_type = "builtin"
  /\ made.tool_data.name[1] \in Range(builtin_tools)

\* C30 (as stated): attaching any builtin the catalogue offers yields a list of
\* exactly one capability, the registry's operation for the lower-cased name; the
\* factory returns None for a builtin row only when the lower-cased name is
\* outside the registry.
C30_OfferedBuiltinsResolve ==
  /\ OfferedAttached =>
       /\ ~made.result.none
       /\ made.result.list
            = <<Capability("builtin", <<BuiltinOperation(LowerAtom(made.tool_data.name[1]))>>)>>
  /\ (made.pc = "made" /\ made.tool_data.tool_type = "builtin") =>
       (made.result.none <=> LowerAtom(made.tool_data.name[1]) \notin BuiltinRegistry)

====
